---- MODULE Spec2Model ----
(***************************************************************************)
(* The media hub server: the in-process metadata store (MemStorage), the   *)
(* uploads/ directory tree, the multer upload middleware, the four         *)
(* controllers (video, pdf, audio, webgl) and the read streams their       *)
(* responses are piped from.                                               *)
(*                                                                         *)
(* Conventions.  A JavaScript value that may be null/undefined/NaN is a    *)
(* sequence of length at most one: <<>> is the missing value, <<v>> is v.  *)
(* A string the code takes apart (a Range header, a route parameter) is a  *)
(* sequence of one-character strings; the literal "bytes=" is one token.   *)
(* A file name is <<fieldname, suffix, ext>> and a path is <<dir, name>>.  *)
(***************************************************************************)
EXTENDS Integers, Sequences, FiniteSets, TLC

\* ------------------------------------------------------------ bounds --
\* Uploads that reach the disk; the clock stops the uploads beyond it.
MaxUploads == 2
\* Largest blob, in bytes.
MaxBlob == 3
\* Request slots that can be in flight at the same time.
MaxConn == 2
\* Bytes one read of a stream delivers at most (the stream's highWaterMark,
\* scaled down).
ChunkSize == 2

Conns == 1..MaxConn

NaN == <<>>
Null == <<>>
Some(v) == <<v>>
IsNum(x) == x # <<>>
Val(x) == x[1]

Min(a, b) == IF a <= b THEN a ELSE b
Max(a, b) == IF a >= b THEN a ELSE b

RECURSIVE SortedIds(_)
SortedIds(S) ==
  IF S = {} THEN <<>>
  ELSE LET m == CHOOSE x \in S : \A y \in S : x <= y
       IN <<m>> \o SortedIds(S \ {m})

\* ------------------------------------------------------- text helpers --
DigitChars == <<"0", "1", "2", "3", "4", "5", "6", "7", "8", "9">>
IsDigit(ch) == \E i \in 1..10 : DigitChars[i] = ch
DigitVal(ch) == (CHOOSE i \in 1..10 : DigitChars[i] = ch) - 1

RECURSIVE DigitPrefix(_)
DigitPrefix(s) ==
  IF s = <<>> \/ ~IsDigit(Head(s)) THEN <<>>
  ELSE <<Head(s)>> \o DigitPrefix(Tail(s))

RECURSIVE DigitsValue(_, _)
DigitsValue(s, acc) ==
  IF s = <<>> THEN acc
  ELSE DigitsValue(Tail(s), acc * 10 + DigitVal(Head(s)))

\* parseInt(s, 10): an optional sign, then the longest run of digits; NaN
\* when there is no digit.
parseInt(s) ==
  LET neg == s # <<>> /\ Head(s) = "-"
      t == IF s # <<>> /\ Head(s) \in {"-", "+"} THEN Tail(s) ELSE s
      p == DigitPrefix(t)
  IN IF p = <<>> THEN NaN
     ELSE Some(IF neg THEN 0 - DigitsValue(p, 0) ELSE DigitsValue(p, 0))

\* String(n) for 0 <= n <= 99.
NumStr(n) ==
  IF n < 10 THEN <<DigitChars[n + 1]>>
  ELSE <<DigitChars[(n \div 10) + 1], DigitChars[(n % 10) + 1]>>

\* range.replace(/bytes=/, ''): the first occurrence is removed.
RECURSIVE ReplaceBytes(_)
ReplaceBytes(s) ==
  IF s = <<>> THEN <<>>
  ELSE IF Head(s) = "bytes=" THEN Tail(s)
  ELSE <<Head(s)>> \o ReplaceBytes(Tail(s))

\* s.split('-')
RECURSIVE SplitDash(_, _)
SplitDash(s, cur) ==
  IF s = <<>> THEN <<cur>>
  ELSE IF Head(s) = "-" THEN <<cur>> \o SplitDash(Tail(s), <<>>)
  ELSE SplitDash(Tail(s), Append(cur, Head(s)))

\* ext.toLowerCase() on the extensions the model uploads.
ToLower(ext) ==
  CASE ext = ".GLB" -> ".glb"
    [] ext = ".PNG" -> ".png"
    [] ext = ".FBX" -> ".fbx"
    [] OTHER -> ext

VARIABLES
  mediaFilesMap,            \* MemStorage.mediaFilesMap: id -> MediaFile
  audioRecordingsMap,       \* MemStorage.audioRecordingsMap
  webglAssetsMap,           \* MemStorage.webglAssetsMap
  currentMediaFileId,       \* MemStorage.currentMediaFileId
  currentAudioRecordingId,  \* MemStorage.currentAudioRecordingId
  currentWebglAssetId,      \* MemStorage.currentWebglAssetId
  disk,                     \* uploads/: path -> bytes
  clock,                    \* Date.now(), advanced by every upload
  conn,                     \* request slot -> request, response and its stream
  crashed,                  \* an uncaught exception ended the process
  backend,                  \* the IStorage behind `storage`: "mem" or "mongo"
  mediaFileDocs,            \* MongoDB: the MediaFile collection, in insertion order
  gridFS,                   \* MongoDB: the GridFS bucket, fileId -> bytes
  faults,                   \* failures of the host now in effect
  second,                   \* the second Date.now() is in: the head of a new ObjectId
  recorder,                 \* client: the refs and state of one useAudioRecorder
  review,                   \* client: the state of the AudioReview page
  viewer                    \* client: the state of the PdfViewer page

vars == <<mediaFilesMap, audioRecordingsMap, webglAssetsMap, currentMediaFileId,
          currentAudioRecordingId, currentWebglAssetId, disk, clock, conn, crashed,
          backend, mediaFileDocs, gridFS, faults, second, recorder, review, viewer>>

mongoVars == <<mediaFileDocs, gridFS>>
clientVars == <<recorder, review, viewer>>
envVars == <<backend, faults, second, clientVars>>

storeVars == <<mediaFilesMap, audioRecordingsMap, webglAssetsMap, currentMediaFileId,
               currentAudioRecordingId, currentWebglAssetId>>

serverVars == <<storeVars, mongoVars, backend, faults, second, disk, clock, conn, crashed>>

\* ------------------------------------------------- client, as mounted --
\* useAudioRecorder after its first render: the refs are null (0 here), no
\* getUserMedia call is in flight, no stream is live and no interval runs.
RecorderInit ==
  [mounted |-> TRUE, isRecording |-> FALSE, isPaused |-> FALSE, pending |-> 0,
   starts |-> 0, streams |-> {}, streamRef |-> 0, mediaRecorderRef |-> 0,
   stopping |-> 0, timers |-> {}, timerRef |-> 0, last |-> "mount"]

\* AudioReview after its first render: the useState initial values, the query
\* still loading (recordings undefined, the empty list here).
ReviewInit ==
  [recordings |-> <<>>, searchQuery |-> <<>>, timeFilter |-> "all", currentPage |-> 1,
   playingRecording |-> 0, renameDialogOpen |-> FALSE, deleteDialogOpen |-> FALSE,
   selectedRecording |-> 0, deleting |-> {}, deleted |-> {}]

\* PdfViewer after its first render: nothing selected, both queries without
\* data, page 1, zoom 1 (zoom is held in hundredths: 100 is 1.0).
ViewerInit ==
  [currentPage |-> 1, pdfFiles |-> <<>>, selectedPdfId |-> 0, selectedPdf |-> 0,
   cached |-> {}, zoom |-> 100]

ClientInit ==
  /\ recorder = RecorderInit
  /\ review = ReviewInit
  /\ viewer = ViewerInit

\* ------------------------------------------------------- file system --
Path(dir, filename) == <<dir, filename>>
existsSync(path) == path \in DOMAIN disk
statSize(path) == Len(disk[path])
unlinkSync(d, path) == [p \in DOMAIN d \ {path} |-> d[p]]
writeFile(d, path, bytes) == [p \in DOMAIN d \cup {path} |-> IF p = path THEN bytes ELSE d[p]]

\* fs.createReadStream(path, opts).  opts.given tells whether {start, end}
\* was passed.  The constructor validates the window before anything is
\* opened: a start or end that is not a non-negative integer, or a start
\* beyond end, throws.
NoOpts == [given |-> FALSE, start |-> NaN, end |-> NaN]
Window(start, end) == [given |-> TRUE, start |-> start, end |-> end]
createReadStreamThrows(opts) ==
  /\ opts.given
  /\ \/ ~IsNum(opts.start)
     \/ ~IsNum(opts.end)
     \/ /\ IsNum(opts.start) /\ IsNum(opts.end)
        /\ (Val(opts.start) < 0 \/ Val(opts.end) < 0 \/ Val(opts.start) > Val(opts.end))

NoStream == [last |-> <<>>, path |-> <<>>, st |-> "none", pos |-> 0, data |-> <<>>]
\* The stream object createReadStream returns: the file is opened later,
\* from the event loop; last = <<>> reads to the end of the file.
createReadStream(path, opts) ==
  [last |-> IF opts.given THEN Some(Val(opts.end)) ELSE <<>>, path |-> path,
   st |-> "opening",
   pos |-> IF opts.given THEN Val(opts.start) ELSE 0,
   data |-> <<>>]

\* Bytes the next read of an open stream delivers: at most ChunkSize, not
\* past the window's last byte, not past the end of the file.
ReadLen(s) ==
  LET want == IF s.last = <<>> THEN ChunkSize ELSE Min(ChunkSize, Val(s.last) - s.pos + 1)
      avail == Len(s.data) - s.pos
      n == Min(want, avail)
  IN IF n < 0 THEN 0 ELSE n

\* ------------------------------------------------- requests/responses --
NoHdr == [contentRange |-> <<>>, acceptRanges |-> "", contentLength |-> <<>>,
          contentType |-> "", contentDisposition |-> <<>>]
Idle == [st |-> "idle", req |-> [op |-> ""], status |-> 0, hdr |-> NoHdr,
         json |-> <<>>, body |-> <<>>, stream |-> NoStream]

Message(m) == <<"message", m>>

\* res.status(status).json(payload): a complete response.
JsonResponse(req, status, payload) ==
  [st |-> "done", req |-> req, status |-> status,
   hdr |-> [NoHdr EXCEPT !.contentType = "application/json"],
   json |-> payload, body |-> <<>>, stream |-> NoStream]

\* res.status(204).end()
EmptyResponse(req, status) ==
  [st |-> "done", req |-> req, status |-> status, hdr |-> NoHdr,
   json |-> <<>>, body |-> <<>>, stream |-> NoStream]

\* Status line and headers are fixed, the body is piped from `stream`.
PipedResponse(req, status, hdr, stream) ==
  [st |-> "streaming", req |-> req, status |-> status, hdr |-> hdr,
   json |-> <<>>, body |-> <<>>, stream |-> stream]

\* A slot that takes a new request: none in flight on it.
Free(c) == ~crashed /\ conn[c].st \in {"idle", "done"}

\* ---------------------------------------------------------- MemStorage --
\* Array.from(map.values()): the records in insertion order, which is the
\* order of their ids.
MapValues(map) == LET ids == SortedIds(DOMAIN map) IN [i \in 1..Len(ids) |-> map[ids[i]]]
MapSet(map, id, rec) == [i \in DOMAIN map \cup {id} |-> IF i = id THEN rec ELSE map[i]]
MapDelete(map, id) == [i \in DOMAIN map \ {id} |-> map[i]]

\* getMediaFiles that ignores its fileType argument.
getMediaFilesUnfiltered(fileType) == MapValues(mediaFilesMap)

getMediaFiles(fileType) == SelectSeq(MapValues(mediaFilesMap), LAMBDA f : f.fileType = fileType)
getMediaFileById(id) == IF id \in DOMAIN mediaFilesMap THEN Some(mediaFilesMap[id]) ELSE Null

\* createMediaFile that never advances currentMediaFileId: every record is
\* stored under the id 1 and replaces the one before it.
createMediaFileSameId(file, now) ==
  [filename |-> file.filename, id |-> 1, fileType |-> file.fileType,
   originalName |-> file.originalName, mimeType |-> file.mimeType, size |-> file.size,
   duration |-> file.duration, resolution |-> file.resolution,
   pageCount |-> file.pageCount, uploadDate |-> now]

\* createMediaFile: {...file, id: currentMediaFileId++, uploadDate: now}
createMediaFile(file, now) ==
  [filename |-> file.filename, id |-> currentMediaFileId, fileType |-> file.fileType,
   originalName |-> file.originalName, mimeType |-> file.mimeType, size |-> file.size,
   duration |-> file.duration, resolution |-> file.resolution,
   pageCount |-> file.pageCount, uploadDate |-> now]

\* deleteMediaFile: the blob is unlinked when it exists, then the record is
\* dropped; false when the id is unknown.
deleteMediaFileFound(id) == id \in DOMAIN mediaFilesMap
\* deleteMediaFile that drops the record and leaves the blob on the disk.
deleteMediaFileDiskKept(id) == disk

deleteMediaFileDisk(id) ==
  LET file == mediaFilesMap[id]
      filePath == Path(file.fileType \o "s", file.filename)
  IN IF existsSync(filePath) THEN unlinkSync(disk, filePath) ELSE disk
\* deleteMediaFile that unlinks without asking existsSync first: the unlink
\* of a blob that is missing throws as well.
deleteMediaFileThrowsUnguarded(id) ==
  \/ "unlink" \in faults
  \/ ~existsSync(Path(mediaFilesMap[id].fileType \o "s", mediaFilesMap[id].filename))

\* unlinkSync throws when the host refuses the removal; deleteMediaFile's
\* catch then returns false with the record and the blob as they were.
deleteMediaFileThrows(id) ==
  /\ "unlink" \in faults
  /\ existsSync(Path(mediaFilesMap[id].fileType \o "s", mediaFilesMap[id].filename))
\* deleteMediaFile that unlinks the blob and keeps the record.
deleteMediaFileMapKept(id) == mediaFilesMap

deleteMediaFileMap(id) == MapDelete(mediaFilesMap, id)

getAudioRecordings == MapValues(audioRecordingsMap)
getAudioRecordingById(id) ==
  IF id \in DOMAIN audioRecordingsMap THEN Some(audioRecordingsMap[id]) ELSE Null

\* createAudioRecording: {...recording, id: currentAudioRecordingId++, dateRecorded: now}
createAudioRecording(recording, now) ==
  [f \in DOMAIN recording \cup {"id", "dateRecorded"} |->
     IF f = "id" THEN currentAudioRecordingId
     ELSE IF f = "dateRecorded" THEN now
     ELSE recording[f]]

\* updateAudioRecording: {...recording, ...updates}
updateAudioRecording(id, updates) ==
  LET recording == audioRecordingsMap[id]
  IN [f \in DOMAIN recording \cup DOMAIN updates |->
        IF f \in DOMAIN updates THEN updates[f] ELSE recording[f]]

deleteAudioRecordingDisk(id) ==
  LET filePath == Path("audio", audioRecordingsMap[id].filename)
  IN IF existsSync(filePath) THEN unlinkSync(disk, filePath) ELSE disk

getWebGLAssets == MapValues(webglAssetsMap)
getWebGLAssetById(id) == IF id \in DOMAIN webglAssetsMap THEN Some(webglAssetsMap[id]) ELSE Null

\* createWebGLAsset: {...asset, id: currentWebglAssetId++, dateUploaded: now}
createWebGLAsset(asset, now) ==
  [filename |-> asset.filename, id |-> currentWebglAssetId, size |-> asset.size,
   name |-> asset.name, description |-> asset.description, format |-> asset.format,
   dateUploaded |-> now]

deleteWebGLAssetDisk(id) ==
  LET filePath == Path("webgl", webglAssetsMap[id].filename)
  IN IF existsSync(filePath) THEN unlinkSync(disk, filePath) ELSE disk

\* -------------------------------------------------------- MongoStorage --
\* The second implementation of IStorage.  Its records are documents of the
\* MediaFile collection and its blobs are files of the GridFS bucket.  The
\* model follows its media file methods.

\* new MediaFile({...}) of createMediaFile.  The _id is an ObjectId, which
\* starts with the second it was made in: oid = <<second, serial>>.  Every
\* optional attribute is stored as `value || null`, so 0 and '' become null.
mediaFileDoc(file, fileId, now) ==
  [filename |-> file.filename, fileType |-> file.fileType,
   originalName |-> file.originalName, mimeType |-> file.mimeType, size |-> file.size,
   duration |-> IF file.duration = Some(0) THEN Null ELSE file.duration,
   resolution |-> IF file.resolution = Some("") THEN Null ELSE file.resolution,
   pageCount |-> IF file.pageCount = Some(0) THEN Null ELSE file.pageCount,
   uploadDate |-> now, fileId |-> fileId, oid |-> <<second, now>>]

\* A document in the format of the interface:
\* id = parseInt(_id.toString().substring(0, 8), 16), the second of the _id.
mediaFileOfDoc(doc) ==
  [filename |-> doc.filename, id |-> doc.oid[1], fileType |-> doc.fileType,
   originalName |-> doc.originalName, mimeType |-> doc.mimeType, size |-> doc.size,
   duration |-> doc.duration, resolution |-> doc.resolution,
   pageCount |-> doc.pageCount, uploadDate |-> doc.uploadDate]

\* MongoStorage.getMediaFiles: find(query).sort({uploadDate: -1}), the newest
\* first; fileType "" is the call without argument.
mongoGetMediaFiles(fileType) ==
  LET n == Len(mediaFileDocs)
      files == [i \in 1..n |-> mediaFileOfDoc(mediaFileDocs[n + 1 - i])]
  IN SelectSeq(files, LAMBDA f : fileType = "" \/ f.fileType = fileType)

\* MongoStorage.getMediaFileById: the first of getMediaFiles() with that id.
mongoGetMediaFileById(id) ==
  LET hits == SelectSeq(mongoGetMediaFiles(""), LAMBDA f : f.id = id)
  IN IF hits = <<>> THEN Null ELSE Some(hits[1])

\* streamFileToGridFS: the file is copied into the bucket under a new fileId;
\* on 'finish' the original is unlinked from uploads/.
streamFileToGridFS(bucket, fileId, bytes) ==
  [f \in DOMAIN bucket \cup {fileId} |-> IF f = fileId THEN bytes ELSE bucket[f]]

\* deleteFileFromGridFS: bucket.delete; a failure is logged and swallowed.
deleteFileFromGridFS(bucket, fileId) ==
  IF "gridfsDelete" \in faults THEN bucket
  ELSE [f \in DOMAIN bucket \ {fileId} |-> bucket[f]]

\* MongoStorage.deleteMediaFile: the document findOne({filename}) gives for
\* the file of that id; its GridFS file is deleted, then the document.
mongoDeleteMediaFileIndex(id) ==
  LET file == Val(mongoGetMediaFileById(id))
  IN CHOOSE i \in 1..Len(mediaFileDocs) :
       /\ mediaFileDocs[i].filename = file.filename
       /\ \A j \in 1..(i - 1) : mediaFileDocs[j].filename # file.filename
mongoDeleteMediaFileGridFS(id) ==
  deleteFileFromGridFS(gridFS, mediaFileDocs[mongoDeleteMediaFileIndex(id)].fileId)
mongoDeleteMediaFileDocs(id) ==
  LET i == mongoDeleteMediaFileIndex(id)
  IN SubSeq(mediaFileDocs, 1, i - 1) \o SubSeq(mediaFileDocs, i + 1, Len(mediaFileDocs))

\* ------------------------------------------------------------- storage --
\* The IStorage the controllers call, by the backend behind it.
storageGetMediaFiles(fileType) ==
  IF backend = "mongo" THEN mongoGetMediaFiles(fileType) ELSE getMediaFiles(fileType)
storageGetMediaFileById(id) ==
  IF backend = "mongo" THEN mongoGetMediaFileById(id) ELSE getMediaFileById(id)
\* storage.deleteMediaFile(id): its boolean result.
storageDeleteMediaFile(id) ==
  IF backend = "mongo" THEN mongoGetMediaFileById(id) # Null
  ELSE deleteMediaFileFound(id) /\ ~deleteMediaFileThrows(id)

\* storage.createMediaFile under MongoStorage, inside the try of an upload
\* handler: the blob goes to GridFS and leaves uploads/, then the document is
\* saved; a save that fails throws, and the handler's catch answers 500.
mongoCreateMediaFile(c, req, file, bytes, data, failure) ==
  LET doc == mediaFileDoc(data, clock, clock)
  IN /\ gridFS' = streamFileToGridFS(gridFS, clock, bytes)
     /\ disk' = unlinkSync(writeFile(disk, file.path, bytes),
                           Path(data.fileType \o "s", data.filename))
     /\ IF "save" \in faults
        THEN /\ mediaFileDocs' = mediaFileDocs
             /\ conn' = [conn EXCEPT ![c] = JsonResponse(req, 500, Message(failure))]
        ELSE /\ mediaFileDocs' = Append(mediaFileDocs, doc)
             /\ conn' = [conn EXCEPT ![c] =
                           JsonResponse(req, 201, <<"record", mediaFileOfDoc(doc)>>)]
     /\ UNCHANGED storeVars

\* -------------------------------------------------------------- multer --
\* An uploaded file part: [fieldname, originalname = <<stem, ext>>, mimetype,
\* bytes]; <<>> when the multipart body carries no file.
extname(originalname) == originalname[2]
allowedExtensions == {".gltf", ".glb", ".png", ".fbx"}

\* A fileFilter that lets every file through.
fileFilterRejectsNothing(part) == FALSE

\* upload.fileFilter: only the webgl field is restricted.
fileFilterRejects(part) ==
  part.fieldname = "webgl" /\ ToLower(extname(part.originalname)) \notin allowedExtensions

\* multerStorage.destination
destination(part) ==
  CASE part.fieldname = "video" -> "videos"
    [] part.fieldname = "pdf" -> "pdfs"
    [] part.fieldname = "audio" -> "audio"
    [] part.fieldname = "webgl" -> "webgl"
    [] OTHER -> "."

\* multerStorage.filename: fieldname-uniqueSuffix+ext.  uniqueSuffix is
\* Date.now() + '-' + a random number; the model takes the pair as never
\* repeating and writes it as the clock value of the upload.
multerFilename(part, now) == <<part.fieldname, now, extname(part.originalname)>>

\* req.file as multer hands it to the controller.
multerFile(part, now) ==
  [filename |-> multerFilename(part, now),
   path |-> Path(destination(part), multerFilename(part, now)),
   size |-> Len(part.bytes), originalname |-> part.originalname,
   mimetype |-> part.mimetype]

\* The error middleware of index.ts: status = err.status || err.statusCode
\* || 500, body {message}.
errorMiddleware(req, err) ==
  JsonResponse(req, IF err.status # <<>> THEN Val(err.status) ELSE 500,
               Message(IF err.message # "" THEN err.message ELSE "Internal Server Error"))

\* ------------------------------------------------------------- schemas --
\* createInsertSchema(table).omit({id, date}): a notNull column without a
\* default is required; an integer column takes a number that is not NaN.
\* Data objects are records; a key the object does not have is not in its
\* DOMAIN; a nullable value is <<>> or <<v>>.
insertMediaFileSchema(data) ==
  {"filename", "originalName", "mimeType", "size", "fileType"} \subseteq DOMAIN data

insertAudioRecordingSchema(data) ==
  /\ {"name", "filename", "size", "duration", "format"} \subseteq DOMAIN data
  /\ IsNum(data.duration)

insertWebglAssetSchema(data) ==
  {"name", "filename", "size", "format"} \subseteq DOMAIN data

\* getMimeType(filename): by extension.
getMimeType(originalname) ==
  LET ext == ToLower(extname(originalname))
  IN CASE ext = ".mp4" -> "video/mp4"
       [] ext = ".webm" -> "video/webm"
       [] ext = ".pdf" -> "application/pdf"
       [] ext = ".gltf" -> "model/gltf+json"
       [] ext = ".glb" -> "model/gltf-binary"
       [] OTHER -> "application/octet-stream"

\* ----------------------------------------------------- videoController --
\* The Range header taken apart as streamVideo does: parts[0] is the start,
\* parts[1] the end when it is a non-empty string, else fileSize - 1.
videoRangeStart(range) == parseInt(SplitDash(ReplaceBytes(range), <<>>)[1])
\* The end of an open-ended range taken as fileSize instead of fileSize - 1.
videoRangeEndPastEof(range, fileSize) ==
  LET parts == SplitDash(ReplaceBytes(range), <<>>)
  IN IF Len(parts) >= 2 /\ parts[2] # <<>> THEN parseInt(parts[2]) ELSE Some(fileSize)

videoRangeEnd(range, fileSize) ==
  LET parts == SplitDash(ReplaceBytes(range), <<>>)
  IN IF Len(parts) >= 2 /\ parts[2] # <<>> THEN parseInt(parts[2]) ELSE Some(fileSize - 1)

\* streamVideo's 206 headers with the chunk size taken as end - start.
videoRangeHeadersShort(start, end, fileSize, mimeType) ==
  [contentRange |-> <<"bytes", start, end, fileSize>>,
   acceptRanges |-> "bytes",
   contentLength |-> Some(end - start),
   contentType |-> mimeType,
   contentDisposition |-> <<>>]

\* The 206 headers of streamVideo.
videoRangeHeaders(start, end, fileSize, mimeType) ==
  [contentRange |-> <<"bytes", start, end, fileSize>>,
   acceptRanges |-> "bytes",
   contentLength |-> Some((end - start) + 1),
   contentType |-> mimeType,
   contentDisposition |-> <<>>]

\* streamVideo's 200 headers without the Content-Length.
videoFullHeadersNoLength(fileSize, mimeType) ==
  [NoHdr EXCEPT !.contentType = mimeType]

\* The 200 headers of streamVideo.
videoFullHeaders(fileSize, mimeType) ==
  [NoHdr EXCEPT !.contentLength = Some(fileSize), !.contentType = mimeType]

getAllVideosResponse(req) == JsonResponse(req, 200, <<"list", storageGetMediaFiles("video")>>)

getVideoByIdResponse(req) ==
  LET id == parseInt(req.id)
  IN IF ~IsNum(id) THEN JsonResponse(req, 400, Message("Invalid video ID"))
     ELSE LET video == storageGetMediaFileById(Val(id))
          IN IF video = Null \/ Val(video).fileType # "video"
             THEN JsonResponse(req, 404, Message("Video not found"))
             ELSE JsonResponse(req, 200, <<"record", Val(video)>>)

streamVideoResponse(req) ==
  LET id == parseInt(req.id)
  IN IF ~IsNum(id) THEN JsonResponse(req, 400, Message("Invalid video ID"))
     ELSE LET video == storageGetMediaFileById(Val(id))
          IN IF video = Null \/ Val(video).fileType # "video"
             THEN JsonResponse(req, 404, Message("Video not found"))
             ELSE LET videoPath == Path("videos", Val(video).filename)
                  IN IF ~existsSync(videoPath)
                     THEN JsonResponse(req, 404, Message("Video file not found"))
                     ELSE LET fileSize == statSize(videoPath)
                              start == videoRangeStart(req.range)
                              end == videoRangeEnd(req.range, fileSize)
                          IN IF req.range # <<>>
                             THEN IF createReadStreamThrows(Window(start, end))
                                  THEN JsonResponse(req, 500, Message("Failed to stream video"))
                                  ELSE PipedResponse(req, 206,
                                         videoRangeHeaders(Val(start), Val(end), fileSize,
                                                           Val(video).mimeType),
                                         createReadStream(videoPath, Window(start, end)))
                             ELSE PipedResponse(req, 200,
                                    videoFullHeaders(fileSize, Val(video).mimeType),
                                    createReadStream(videoPath, NoOpts))

\* videoData as uploadVideo assembles it; metadata is what parseVideoMetadata
\* returned ({duration: 0, resolution: ''} when ffprobe failed).
videoData(file, metadata) ==
  [filename |-> file.filename, fileType |-> "video",
   originalName |-> file.originalname,
   mimeType |-> IF file.mimetype # "" THEN file.mimetype ELSE getMimeType(file.originalname),
   size |-> file.size,
   duration |-> Some(metadata.duration), resolution |-> Some(metadata.resolution),
   pageCount |-> Null]

GetAllVideos(c) ==
  /\ Free(c)
  /\ conn' = [conn EXCEPT ![c] = getAllVideosResponse([op |-> "getAllVideos"])]
  /\ UNCHANGED <<storeVars, mongoVars, envVars, disk, clock, crashed>>

GetVideoById(c, id) ==
  /\ Free(c)
  /\ conn' = [conn EXCEPT ![c] = getVideoByIdResponse([op |-> "getVideoById", id |-> id])]
  /\ UNCHANGED <<storeVars, mongoVars, envVars, disk, clock, crashed>>

StreamVideo(c, id, range) ==
  /\ Free(c)
  /\ conn' = [conn EXCEPT ![c] =
                streamVideoResponse([op |-> "streamVideo", id |-> id, range |-> range])]
  /\ UNCHANGED <<storeVars, mongoVars, envVars, disk, clock, crashed>>

\* POST /api/videos: upload.single('video'), then uploadVideo.  upload is
\* <<>> or <<part>>.
UploadVideo(c, upload, metadata) ==
  LET req == [op |-> "uploadVideo", upload |-> upload]
      part == upload[1]
      file == multerFile(part, clock)
      data == videoData(file, metadata)
      saved == createMediaFile(data, clock)
  IN
  /\ Free(c)
  /\ IF upload = <<>>
     THEN /\ conn' = [conn EXCEPT ![c] =
                        JsonResponse(req, 400, Message("No video file uploaded"))]
          /\ UNCHANGED <<storeVars, mongoVars, disk, clock>>
     ELSE IF fileFilterRejects(part)
     THEN /\ conn' = [conn EXCEPT ![c] =
                        errorMiddleware(req, [status |-> <<>>,
                                              message |-> "Invalid file type for WebGL upload"])]
          /\ UNCHANGED <<storeVars, mongoVars, disk, clock>>
     ELSE /\ clock <= MaxUploads
          /\ clock' = clock + 1
          /\ IF ~insertMediaFileSchema(data)
             THEN /\ disk' = unlinkSync(writeFile(disk, file.path, part.bytes), file.path)
                  /\ conn' = [conn EXCEPT ![c] =
                                JsonResponse(req, 400, Message("Invalid video data"))]
                  /\ UNCHANGED <<storeVars, mongoVars>>
             ELSE IF backend = "mongo"
             THEN mongoCreateMediaFile(c, req, file, part.bytes, data, "Failed to upload video")
             ELSE /\ disk' = writeFile(disk, file.path, part.bytes)
                  /\ mediaFilesMap' = MapSet(mediaFilesMap, saved.id, saved)
                  /\ currentMediaFileId' = currentMediaFileId + 1
                  /\ conn' = [conn EXCEPT ![c] = JsonResponse(req, 201, <<"record", saved>>)]
                  /\ UNCHANGED <<audioRecordingsMap, webglAssetsMap,
                                 currentAudioRecordingId, currentWebglAssetId, mongoVars>>
  /\ UNCHANGED <<crashed, envVars>>

deleteVideoResponse(req) ==
  LET id == parseInt(req.id)
  IN IF ~IsNum(id) THEN JsonResponse(req, 400, Message("Invalid video ID"))
     ELSE LET video == storageGetMediaFileById(Val(id))
          IN IF video = Null \/ Val(video).fileType # "video"
             THEN JsonResponse(req, 404, Message("Video not found"))
             ELSE IF ~storageDeleteMediaFile(Val(id))
             THEN JsonResponse(req, 500, Message("Failed to delete video"))
             ELSE EmptyResponse(req, 204)

DeleteVideo(c, id) ==
  LET req == [op |-> "deleteVideo", id |-> id]
      res == deleteVideoResponse(req)
  IN
  /\ Free(c)
  /\ conn' = [conn EXCEPT ![c] = res]
  /\ IF res.status # 204
     THEN UNCHANGED <<disk, mediaFilesMap, mongoVars>>
     ELSE IF backend = "mongo"
     THEN /\ gridFS' = mongoDeleteMediaFileGridFS(Val(parseInt(id)))
          /\ mediaFileDocs' = mongoDeleteMediaFileDocs(Val(parseInt(id)))
          /\ UNCHANGED <<disk, mediaFilesMap>>
     ELSE /\ disk' = deleteMediaFileDisk(Val(parseInt(id)))
          /\ mediaFilesMap' = deleteMediaFileMap(Val(parseInt(id)))
          /\ UNCHANGED mongoVars
  /\ UNCHANGED <<audioRecordingsMap, webglAssetsMap, currentMediaFileId,
                 currentAudioRecordingId, currentWebglAssetId, clock, crashed, envVars>>

\* ----------------------------------------------------- audioController --
audioRangeStart(range) == parseInt(SplitDash(ReplaceBytes(range), <<>>)[1])
audioRangeEnd(range, fileSize) ==
  LET parts == SplitDash(ReplaceBytes(range), <<>>)
  IN IF Len(parts) >= 2 /\ parts[2] # <<>> THEN parseInt(parts[2]) ELSE Some(fileSize - 1)

audioRangeHeaders(start, end, fileSize) ==
  [contentRange |-> <<"bytes", start, end, fileSize>>,
   acceptRanges |-> "bytes",
   contentLength |-> Some((end - start) + 1),
   contentType |-> "audio/webm",
   contentDisposition |-> <<>>]

audioFullHeaders(fileSize) ==
  [NoHdr EXCEPT !.contentLength = Some(fileSize), !.contentType = "audio/webm"]

\* getAllRecordings sorts newest first; dateRecorded grows with the id.
getAllRecordingsResponse(req) ==
  LET recs == getAudioRecordings
  IN JsonResponse(req, 200, <<"list", [i \in 1..Len(recs) |-> recs[Len(recs) + 1 - i]]>>)

getRecordingByIdResponse(req) ==
  LET id == parseInt(req.id)
  IN IF ~IsNum(id) THEN JsonResponse(req, 400, Message("Invalid recording ID"))
     ELSE LET recording == getAudioRecordingById(Val(id))
          IN IF recording = Null
             THEN JsonResponse(req, 404, Message("Recording not found"))
             ELSE JsonResponse(req, 200, <<"record", Val(recording)>>)

streamAudioResponse(req) ==
  LET id == parseInt(req.id)
  IN IF ~IsNum(id) THEN JsonResponse(req, 400, Message("Invalid recording ID"))
     ELSE LET recording == getAudioRecordingById(Val(id))
          IN IF recording = Null
             THEN JsonResponse(req, 404, Message("Recording not found"))
             ELSE LET audioPath == Path("audio", Val(recording).filename)
                  IN IF ~existsSync(audioPath)
                     THEN JsonResponse(req, 404, Message("Audio file not found"))
                     ELSE LET fileSize == statSize(audioPath)
                              start == audioRangeStart(req.range)
                              end == audioRangeEnd(req.range, fileSize)
                          IN IF req.range # <<>>
                             THEN IF createReadStreamThrows(Window(start, end))
                                  THEN JsonResponse(req, 500, Message("Failed to stream audio"))
                                  ELSE PipedResponse(req, 206,
                                         audioRangeHeaders(Val(start), Val(end), fileSize),
                                         createReadStream(audioPath, Window(start, end)))
                             ELSE PipedResponse(req, 200, audioFullHeaders(fileSize),
                                    createReadStream(audioPath, NoOpts))

downloadAudioResponse(req) ==
  LET id == parseInt(req.id)
  IN IF ~IsNum(id) THEN JsonResponse(req, 400, Message("Invalid recording ID"))
     ELSE LET recording == getAudioRecordingById(Val(id))
          IN IF recording = Null
             THEN JsonResponse(req, 404, Message("Recording not found"))
             ELSE LET audioPath == Path("audio", Val(recording).filename)
                  IN IF ~existsSync(audioPath)
                     THEN JsonResponse(req, 404, Message("Audio file not found"))
                     ELSE PipedResponse(req, 200,
                            [NoHdr EXCEPT !.contentType = "audio/webm",
                                          !.contentDisposition =
                                             <<"attachment", Val(recording).name, ".webm">>],
                            createReadStream(audioPath, NoOpts))

\* recordingData as uploadRecording assembles it: name, filename, size and
\* duration, and no other key.  body.name is <<>> when the form has none;
\* body.duration is the form's duration string; probed is what
\* getAudioDuration returns for the file.
recordingData(file, body, probed, now) ==
  [filename |-> file.filename,
   size |-> file.size,
   duration |-> IF IsNum(parseInt(body.duration)) THEN parseInt(body.duration) ELSE probed,
   name |-> IF body.name # "" THEN body.name ELSE "Recording " \o now]

GetAllRecordings(c) ==
  /\ Free(c)
  /\ conn' = [conn EXCEPT ![c] = getAllRecordingsResponse([op |-> "getAllRecordings"])]
  /\ UNCHANGED <<storeVars, mongoVars, envVars, disk, clock, crashed>>

GetRecordingById(c, id) ==
  /\ Free(c)
  /\ conn' = [conn EXCEPT ![c] =
                getRecordingByIdResponse([op |-> "getRecordingById", id |-> id])]
  /\ UNCHANGED <<storeVars, mongoVars, envVars, disk, clock, crashed>>

StreamAudio(c, id, range) ==
  /\ Free(c)
  /\ conn' = [conn EXCEPT ![c] =
                streamAudioResponse([op |-> "streamAudio", id |-> id, range |-> range])]
  /\ UNCHANGED <<storeVars, mongoVars, envVars, disk, clock, crashed>>

DownloadAudio(c, id) ==
  /\ Free(c)
  /\ conn' = [conn EXCEPT ![c] = downloadAudioResponse([op |-> "downloadAudio", id |-> id])]
  /\ UNCHANGED <<storeVars, mongoVars, envVars, disk, clock, crashed>>

\* POST /api/audio-recordings: upload.single('audio'), then uploadRecording.
UploadRecording(c, upload, body, probed) ==
  LET req == [op |-> "uploadRecording", upload |-> upload]
      part == upload[1]
      file == multerFile(part, clock)
      data == recordingData(file, body, probed, "now")
      saved == createAudioRecording(data, clock)
  IN
  /\ Free(c)
  /\ IF upload = <<>>
     THEN /\ conn' = [conn EXCEPT ![c] =
                        JsonResponse(req, 400, Message("No audio file uploaded"))]
          /\ UNCHANGED <<storeVars, mongoVars, disk, clock>>
     ELSE IF fileFilterRejects(part)
     THEN /\ conn' = [conn EXCEPT ![c] =
                        errorMiddleware(req, [status |-> <<>>,
                                              message |-> "Invalid file type for WebGL upload"])]
          /\ UNCHANGED <<storeVars, mongoVars, disk, clock>>
     ELSE /\ clock <= MaxUploads
          /\ clock' = clock + 1
          /\ IF ~insertAudioRecordingSchema(data)
             THEN /\ disk' = unlinkSync(writeFile(disk, file.path, part.bytes), file.path)
                  /\ conn' = [conn EXCEPT ![c] =
                                JsonResponse(req, 400, Message("Invalid recording data"))]
                  /\ UNCHANGED <<storeVars, mongoVars>>
             ELSE /\ disk' = writeFile(disk, file.path, part.bytes)
                  /\ audioRecordingsMap' = MapSet(audioRecordingsMap, saved.id, saved)
                  /\ currentAudioRecordingId' = currentAudioRecordingId + 1
                  /\ conn' = [conn EXCEPT ![c] = JsonResponse(req, 201, <<"record", saved>>)]
                  /\ UNCHANGED <<mediaFilesMap, webglAssetsMap,
                                 currentMediaFileId, currentWebglAssetId, mongoVars>>
  /\ UNCHANGED <<crashed, envVars>>

\* PATCH /api/audio-recordings/:id with body {name}; name is <<>> when the
\* body has none, else <<string>>.  trim() is taken on the names the model
\* sends: " " trims to "", " Notes " to "Notes".
trim(name) ==
  CASE name = " " -> ""
    [] name = " Notes " -> "Notes"
    [] OTHER -> name

renameRecordingResponse(req) ==
  LET id == parseInt(req.id)
  IN IF ~IsNum(id) THEN JsonResponse(req, 400, Message("Invalid recording ID"))
     ELSE IF req.name = <<>> \/ Val(req.name) = "" \/ trim(Val(req.name)) = ""
     THEN JsonResponse(req, 400, Message("Invalid name provided"))
     ELSE LET recording == getAudioRecordingById(Val(id))
          IN IF recording = Null
             THEN JsonResponse(req, 404, Message("Recording not found"))
             ELSE JsonResponse(req, 200,
                    <<"record", updateAudioRecording(Val(id), [name |-> trim(Val(req.name))])>>)

RenameRecording(c, id, name) ==
  LET req == [op |-> "renameRecording", id |-> id, name |-> name]
      res == renameRecordingResponse(req)
  IN
  /\ Free(c)
  /\ conn' = [conn EXCEPT ![c] = res]
  /\ IF res.status = 200
     THEN audioRecordingsMap' = MapSet(audioRecordingsMap, Val(parseInt(id)), res.json[2])
     ELSE UNCHANGED audioRecordingsMap
  /\ UNCHANGED <<mediaFilesMap, webglAssetsMap, currentMediaFileId,
                 currentAudioRecordingId, currentWebglAssetId, disk, clock, crashed,
                 mongoVars, envVars>>

deleteRecordingResponse(req) ==
  LET id == parseInt(req.id)
  IN IF ~IsNum(id) THEN JsonResponse(req, 400, Message("Invalid recording ID"))
     ELSE IF getAudioRecordingById(Val(id)) = Null
     THEN JsonResponse(req, 404, Message("Recording not found"))
     ELSE EmptyResponse(req, 204)

DeleteRecording(c, id) ==
  LET req == [op |-> "deleteRecording", id |-> id]
      res == deleteRecordingResponse(req)
  IN
  /\ Free(c)
  /\ conn' = [conn EXCEPT ![c] = res]
  /\ IF res.status = 204
     THEN /\ disk' = deleteAudioRecordingDisk(Val(parseInt(id)))
          /\ audioRecordingsMap' = MapDelete(audioRecordingsMap, Val(parseInt(id)))
     ELSE UNCHANGED <<disk, audioRecordingsMap>>
  /\ UNCHANGED <<mediaFilesMap, webglAssetsMap, currentMediaFileId,
                 currentAudioRecordingId, currentWebglAssetId, clock, crashed,
                 mongoVars, envVars>>

\* ------------------------------------------------------- pdfController --
\* PDFDocument.load(bytes) of pdf-lib, on the model's two-valued bytes: a
\* document starts with the byte 0 (the header) and every byte 1 after it is
\* a page; anything else does not parse and load throws.
pdfLoads(bytes) == bytes # <<>> /\ bytes[1] = 0
pdfPages(bytes) == {i \in 1..Len(bytes) : bytes[i] = 1}
getPageCount(bytes) == Cardinality(pdfPages(bytes))
\* The byte position of page n (1-based) of a document.
pdfPageAt(bytes, n) == SortedIds(pdfPages(bytes))[n]

\* countPdfPages: 0 when the file does not parse.
countPdfPages(bytes) == IF pdfLoads(bytes) THEN getPageCount(bytes) ELSE 0

getAllPdfsResponse(req) == JsonResponse(req, 200, <<"list", storageGetMediaFiles("pdf")>>)

getPdfByIdResponse(req) ==
  LET id == parseInt(req.id)
  IN IF ~IsNum(id) THEN JsonResponse(req, 400, Message("Invalid PDF ID"))
     ELSE LET pdf == storageGetMediaFileById(Val(id))
          IN IF pdf = Null \/ Val(pdf).fileType # "pdf"
             THEN JsonResponse(req, 404, Message("PDF not found"))
             ELSE JsonResponse(req, 200, <<"record", Val(pdf)>>)

\* viewPdf and downloadPdf differ in the Content-Disposition only.
\* viewPdf/downloadPdf without the existsSync check.
pdfFileResponseUnchecked(req, disposition) ==
  LET id == parseInt(req.id)
  IN IF ~IsNum(id) THEN JsonResponse(req, 400, Message("Invalid PDF ID"))
     ELSE LET pdf == storageGetMediaFileById(Val(id))
          IN IF pdf = Null \/ Val(pdf).fileType # "pdf"
             THEN JsonResponse(req, 404, Message("PDF not found"))
             ELSE PipedResponse(req, 200,
                    [NoHdr EXCEPT !.contentType = "application/pdf",
                                  !.contentDisposition =
                                     <<disposition, Val(pdf).originalName>>],
                    createReadStream(Path("pdfs", Val(pdf).filename), NoOpts))

pdfFileResponse(req, disposition) ==
  LET id == parseInt(req.id)
  IN IF ~IsNum(id) THEN JsonResponse(req, 400, Message("Invalid PDF ID"))
     ELSE LET pdf == storageGetMediaFileById(Val(id))
          IN IF pdf = Null \/ Val(pdf).fileType # "pdf"
             THEN JsonResponse(req, 404, Message("PDF not found"))
             ELSE LET pdfPath == Path("pdfs", Val(pdf).filename)
                  IN IF ~existsSync(pdfPath)
                     THEN JsonResponse(req, 404, Message("PDF file not found"))
                     ELSE PipedResponse(req, 200,
                            [NoHdr EXCEPT !.contentType = "application/pdf",
                                          !.contentDisposition =
                                             <<disposition, Val(pdf).originalName>>],
                            createReadStream(pdfPath, NoOpts))

\* A viewPdf that honours a Range header: the answer to a request that
\* carries one is a 206 with a Content-Range.
viewPdfResponseRanged(req) ==
  LET res == pdfFileResponse(req, "inline")
  IN IF req.range # <<>> /\ res.status = 200
     THEN [res EXCEPT !.status = 206,
                      !.hdr.contentRange = <<"bytes", 0, statSize(res.stream.path) - 1,
                                             statSize(res.stream.path)>>]
     ELSE res

viewPdfResponse(req) == pdfFileResponse(req, "inline")
downloadPdfResponse(req) == pdfFileResponse(req, "attachment")

\* downloadPdfPage: the new document holds the header and the one copied
\* page; json names the byte position the page was copied from.
downloadPdfPageResponse(req) ==
  LET id == parseInt(req.id)
      pageNum == parseInt(req.pageNum)
  IN IF ~IsNum(id) \/ ~IsNum(pageNum)
     THEN JsonResponse(req, 400, Message("Invalid PDF ID or page number"))
     ELSE LET pdf == storageGetMediaFileById(Val(id))
          IN IF pdf = Null \/ Val(pdf).fileType # "pdf"
             THEN JsonResponse(req, 404, Message("PDF not found"))
             ELSE LET pdfPath == Path("pdfs", Val(pdf).filename)
                  IN IF ~existsSync(pdfPath)
                     THEN JsonResponse(req, 404, Message("PDF file not found"))
                     ELSE IF ~pdfLoads(disk[pdfPath])
                     THEN JsonResponse(req, 500, Message("Failed to download PDF page"))
                     ELSE IF Val(pageNum) < 1 \/ Val(pageNum) > getPageCount(disk[pdfPath])
                     THEN JsonResponse(req, 400, Message("Invalid page number"))
                     ELSE [st |-> "done", req |-> req, status |-> 200,
                           hdr |-> [NoHdr EXCEPT !.contentType = "application/pdf",
                                                 !.contentDisposition =
                                                    <<"attachment", Val(pdf).originalName,
                                                      Val(pageNum)>>],
                           json |-> <<"page", pdfPageAt(disk[pdfPath], Val(pageNum))>>,
                           body |-> <<0, 1>>, stream |-> NoStream]

\* pdfData as uploadPdf assembles it: pageCount || 1.
pdfData(file, bytes) ==
  [filename |-> file.filename, fileType |-> "pdf",
   originalName |-> file.originalname,
   mimeType |-> IF file.mimetype # "" THEN file.mimetype ELSE "application/pdf",
   size |-> file.size, duration |-> Null, resolution |-> Null,
   pageCount |-> Some(IF countPdfPages(bytes) # 0 THEN countPdfPages(bytes) ELSE 1)]

GetAllPdfs(c) ==
  /\ Free(c)
  /\ conn' = [conn EXCEPT ![c] = getAllPdfsResponse([op |-> "getAllPdfs"])]
  /\ UNCHANGED <<storeVars, mongoVars, envVars, disk, clock, crashed>>

GetPdfById(c, id) ==
  /\ Free(c)
  /\ conn' = [conn EXCEPT ![c] = getPdfByIdResponse([op |-> "getPdfById", id |-> id])]
  /\ UNCHANGED <<storeVars, mongoVars, envVars, disk, clock, crashed>>

ViewPdf(c, id, range) ==
  /\ Free(c)
  /\ conn' = [conn EXCEPT ![c] =
                viewPdfResponse([op |-> "viewPdf", id |-> id, range |-> range])]
  /\ UNCHANGED <<storeVars, mongoVars, envVars, disk, clock, crashed>>

DownloadPdf(c, id) ==
  /\ Free(c)
  /\ conn' = [conn EXCEPT ![c] = downloadPdfResponse([op |-> "downloadPdf", id |-> id])]
  /\ UNCHANGED <<storeVars, mongoVars, envVars, disk, clock, crashed>>

DownloadPdfPage(c, id, pageNum) ==
  /\ Free(c)
  /\ conn' = [conn EXCEPT ![c] =
                downloadPdfPageResponse([op |-> "downloadPdfPage", id |-> id,
                                         pageNum |-> pageNum])]
  /\ UNCHANGED <<storeVars, mongoVars, envVars, disk, clock, crashed>>

\* POST /api/pdfs: upload.single('pdf'), then uploadPdf.
UploadPdf(c, upload) ==
  LET req == [op |-> "uploadPdf", upload |-> upload]
      part == upload[1]
      file == multerFile(part, clock)
      data == pdfData(file, part.bytes)
      saved == createMediaFile(data, clock)
  IN
  /\ Free(c)
  /\ IF upload = <<>>
     THEN /\ conn' = [conn EXCEPT ![c] =
                        JsonResponse(req, 400, Message("No PDF file uploaded"))]
          /\ UNCHANGED <<storeVars, mongoVars, disk, clock>>
     ELSE IF fileFilterRejects(part)
     THEN /\ conn' = [conn EXCEPT ![c] =
                        errorMiddleware(req, [status |-> <<>>,
                                              message |-> "Invalid file type for WebGL upload"])]
          /\ UNCHANGED <<storeVars, mongoVars, disk, clock>>
     ELSE /\ clock <= MaxUploads
          /\ clock' = clock + 1
          /\ IF ~insertMediaFileSchema(data)
             THEN /\ disk' = unlinkSync(writeFile(disk, file.path, part.bytes), file.path)
                  /\ conn' = [conn EXCEPT ![c] =
                                JsonResponse(req, 400, Message("Invalid PDF data"))]
                  /\ UNCHANGED <<storeVars, mongoVars>>
             ELSE IF backend = "mongo"
             THEN mongoCreateMediaFile(c, req, file, part.bytes, data, "Failed to upload PDF")
             ELSE /\ disk' = writeFile(disk, file.path, part.bytes)
                  /\ mediaFilesMap' = MapSet(mediaFilesMap, saved.id, saved)
                  /\ currentMediaFileId' = currentMediaFileId + 1
                  /\ conn' = [conn EXCEPT ![c] = JsonResponse(req, 201, <<"record", saved>>)]
                  /\ UNCHANGED <<audioRecordingsMap, webglAssetsMap,
                                 currentAudioRecordingId, currentWebglAssetId, mongoVars>>
  /\ UNCHANGED <<crashed, envVars>>

deletePdfResponse(req) ==
  LET id == parseInt(req.id)
  IN IF ~IsNum(id) THEN JsonResponse(req, 400, Message("Invalid PDF ID"))
     ELSE LET pdf == storageGetMediaFileById(Val(id))
          IN IF pdf = Null \/ Val(pdf).fileType # "pdf"
             THEN JsonResponse(req, 404, Message("PDF not found"))
             ELSE IF ~storageDeleteMediaFile(Val(id))
             THEN JsonResponse(req, 500, Message("Failed to delete PDF"))
             ELSE EmptyResponse(req, 204)

DeletePdf(c, id) ==
  LET req == [op |-> "deletePdf", id |-> id]
      res == deletePdfResponse(req)
  IN
  /\ Free(c)
  /\ conn' = [conn EXCEPT ![c] = res]
  /\ IF res.status # 204
     THEN UNCHANGED <<disk, mediaFilesMap, mongoVars>>
     ELSE IF backend = "mongo"
     THEN /\ gridFS' = mongoDeleteMediaFileGridFS(Val(parseInt(id)))
          /\ mediaFileDocs' = mongoDeleteMediaFileDocs(Val(parseInt(id)))
          /\ UNCHANGED <<disk, mediaFilesMap>>
     ELSE /\ disk' = deleteMediaFileDisk(Val(parseInt(id)))
          /\ mediaFilesMap' = deleteMediaFileMap(Val(parseInt(id)))
          /\ UNCHANGED mongoVars
  /\ UNCHANGED <<audioRecordingsMap, webglAssetsMap, currentMediaFileId,
                 currentAudioRecordingId, currentWebglAssetId, clock, crashed, envVars>>

\* ----------------------------------------------------- webglController --
getAllAssetsResponse(req) == JsonResponse(req, 200, <<"list", getWebGLAssets>>)

getAssetByIdResponse(req) ==
  LET id == parseInt(req.id)
  IN IF ~IsNum(id) THEN JsonResponse(req, 400, Message("Invalid asset ID"))
     ELSE LET asset == getWebGLAssetById(Val(id))
          IN IF asset = Null
             THEN JsonResponse(req, 404, Message("WebGL asset not found"))
             ELSE JsonResponse(req, 200, <<"record", Val(asset)>>)

\* serveWebGLAsset: the content type follows the stored file's extension.
webglContentType(filename) ==
  LET ext == ToLower(filename[3])
  IN IF ext = ".gltf" THEN "model/gltf+json"
     ELSE IF ext = ".glb" THEN "model/gltf-binary"
     ELSE "application/octet-stream"

serveWebGLAssetResponse(req) ==
  LET id == parseInt(req.id)
  IN IF ~IsNum(id) THEN JsonResponse(req, 400, Message("Invalid asset ID"))
     ELSE LET asset == getWebGLAssetById(Val(id))
          IN IF asset = Null
             THEN JsonResponse(req, 404, Message("WebGL asset not found"))
             ELSE LET assetPath == Path("webgl", Val(asset).filename)
                  IN IF ~existsSync(assetPath)
                     THEN JsonResponse(req, 404, Message("WebGL asset file not found"))
                     ELSE PipedResponse(req, 200,
                            [NoHdr EXCEPT !.contentType = webglContentType(Val(asset).filename),
                                          !.contentDisposition =
                                             <<"inline", Val(asset).name,
                                               ToLower(Val(asset).filename[3])>>],
                            createReadStream(assetPath, NoOpts))

\* The format taken from the extension as it was sent, not lower-cased.
webglFormatCaseSensitive(originalname) ==
  LET ext == extname(originalname)
  IN IF ext = ".gltf" THEN "GLTF"
     ELSE IF ext = ".glb" THEN "GLB"
     ELSE IF ext = ".png" THEN "PNG"
     ELSE "Unknown"

\* The format uploadAsset derives from the lower-cased extension.
webglFormat(originalname) ==
  LET ext == ToLower(extname(originalname))
  IN IF ext = ".gltf" THEN "GLTF"
     ELSE IF ext = ".glb" THEN "GLB"
     ELSE IF ext = ".png" THEN "PNG"
     ELSE "Unknown"

\* assetData as uploadAsset assembles it.  originalname.replace(ext, '')
\* removes the lower-cased extension, so an upper-case one stays in the name.
assetData(file, body) ==
  [filename |-> file.filename,
   size |-> file.size,
   name |-> IF body.name # "" THEN body.name
            ELSE IF extname(file.originalname) = ToLower(extname(file.originalname))
            THEN file.originalname[1]
            ELSE file.originalname[1] \o extname(file.originalname),
   description |-> body.description,
   format |-> webglFormat(file.originalname)]

GetAllAssets(c) ==
  /\ Free(c)
  /\ conn' = [conn EXCEPT ![c] = getAllAssetsResponse([op |-> "getAllAssets"])]
  /\ UNCHANGED <<storeVars, mongoVars, envVars, disk, clock, crashed>>

GetAssetById(c, id) ==
  /\ Free(c)
  /\ conn' = [conn EXCEPT ![c] = getAssetByIdResponse([op |-> "getAssetById", id |-> id])]
  /\ UNCHANGED <<storeVars, mongoVars, envVars, disk, clock, crashed>>

ServeWebGLAsset(c, id, range) ==
  /\ Free(c)
  /\ conn' = [conn EXCEPT ![c] =
                serveWebGLAssetResponse([op |-> "serveWebGLAsset", id |-> id,
                                         range |-> range])]
  /\ UNCHANGED <<storeVars, mongoVars, envVars, disk, clock, crashed>>

\* POST /api/webgl: upload.single('webgl'), then uploadAsset.
UploadAsset(c, upload, body) ==
  LET req == [op |-> "uploadAsset", upload |-> upload]
      part == upload[1]
      file == multerFile(part, clock)
      data == assetData(file, body)
      saved == createWebGLAsset(data, clock)
  IN
  /\ Free(c)
  /\ IF upload = <<>>
     THEN /\ conn' = [conn EXCEPT ![c] =
                        JsonResponse(req, 400, Message("No WebGL file uploaded"))]
          /\ UNCHANGED <<storeVars, mongoVars, disk, clock>>
     ELSE IF fileFilterRejects(part)
     THEN /\ conn' = [conn EXCEPT ![c] =
                        errorMiddleware(req, [status |-> <<>>,
                                              message |-> "Invalid file type for WebGL upload"])]
          /\ UNCHANGED <<storeVars, mongoVars, disk, clock>>
     ELSE /\ clock <= MaxUploads
          /\ clock' = clock + 1
          /\ IF ~insertWebglAssetSchema(data)
             THEN /\ disk' = unlinkSync(writeFile(disk, file.path, part.bytes), file.path)
                  /\ conn' = [conn EXCEPT ![c] =
                                JsonResponse(req, 400, Message("Invalid WebGL asset data"))]
                  /\ UNCHANGED <<storeVars, mongoVars>>
             ELSE /\ disk' = writeFile(disk, file.path, part.bytes)
                  /\ webglAssetsMap' = MapSet(webglAssetsMap, saved.id, saved)
                  /\ currentWebglAssetId' = currentWebglAssetId + 1
                  /\ conn' = [conn EXCEPT ![c] = JsonResponse(req, 201, <<"record", saved>>)]
                  /\ UNCHANGED <<mediaFilesMap, audioRecordingsMap,
                                 currentMediaFileId, currentAudioRecordingId, mongoVars>>
  /\ UNCHANGED <<crashed, envVars>>

deleteAssetResponse(req) ==
  LET id == parseInt(req.id)
  IN IF ~IsNum(id) THEN JsonResponse(req, 400, Message("Invalid asset ID"))
     ELSE IF getWebGLAssetById(Val(id)) = Null
     THEN JsonResponse(req, 404, Message("WebGL asset not found"))
     ELSE EmptyResponse(req, 204)

DeleteAsset(c, id) ==
  LET req == [op |-> "deleteAsset", id |-> id]
      res == deleteAssetResponse(req)
  IN
  /\ Free(c)
  /\ conn' = [conn EXCEPT ![c] = res]
  /\ IF res.status = 204
     THEN /\ disk' = deleteWebGLAssetDisk(Val(parseInt(id)))
          /\ webglAssetsMap' = MapDelete(webglAssetsMap, Val(parseInt(id)))
     ELSE UNCHANGED <<disk, webglAssetsMap>>
  /\ UNCHANGED <<mediaFilesMap, audioRecordingsMap, currentMediaFileId,
                 currentAudioRecordingId, currentWebglAssetId, clock, crashed,
                 mongoVars, envVars>>

\* -------------------------------------------------- piped read streams --
\* An 'error' listener on the read stream that answers 500 {message} when
\* the open fails, although status line and headers are already written.
StreamOpenAnswers(c) ==
  LET s == conn[c].stream
  IN
  /\ ~crashed
  /\ conn[c].st \in {"streaming", "aborted"}
  /\ s.st = "opening"
  /\ IF existsSync(s.path)
     THEN conn' = [conn EXCEPT ![c].stream = [s EXCEPT !.st = "open", !.data = disk[s.path]]]
     ELSE conn' = [conn EXCEPT ![c] =
                     JsonResponse(conn[c].req, 500, Message("Failed to stream"))]
  /\ UNCHANGED <<storeVars, mongoVars, envVars, disk, clock, crashed>>

\* file.pipe(res): the stream opens its file from the event loop.  A file
\* that is gone by then makes the stream emit 'error'; no handler listens
\* for it, so the exception is uncaught and ends the process.
StreamOpen(c) ==
  LET s == conn[c].stream
  IN
  /\ ~crashed
  /\ conn[c].st \in {"streaming", "aborted"}
  /\ s.st = "opening"
  /\ IF existsSync(s.path)
     THEN /\ conn' = [conn EXCEPT ![c].stream = [s EXCEPT !.st = "open", !.data = disk[s.path]]]
          /\ crashed' = crashed
     ELSE /\ conn' = conn
          /\ crashed' = TRUE
  /\ UNCHANGED <<storeVars, mongoVars, envVars, disk, clock>>

\* A read through one cursor shared by all the open streams: the read of one
\* response moves the position of every other.
StreamReadSharedCursor(c) ==
  LET s == conn[c].stream
      n == ReadLen(s)
  IN
  /\ ~crashed
  /\ conn[c].st = "streaming"
  /\ s.st = "open"
  /\ IF n > 0
     THEN conn' = [d \in Conns |->
                     IF d = c
                     THEN [conn[d] EXCEPT !.body = @ \o SubSeq(s.data, s.pos + 1, s.pos + n),
                                          !.stream.pos = s.pos + n]
                     ELSE IF conn[d].stream.st = "open"
                     THEN [conn[d] EXCEPT !.stream.pos = s.pos + n]
                     ELSE conn[d]]
     ELSE conn' = [conn EXCEPT ![c].st = "done",
                               ![c].stream = [NoStream EXCEPT !.st = "closed"]]
  /\ UNCHANGED <<storeVars, mongoVars, envVars, disk, clock, crashed>>

\* One read of an open stream: the bytes go to the response; a read that
\* has nothing left ends the stream, and pipe ends the response.
StreamRead(c) ==
  LET s == conn[c].stream
      n == ReadLen(s)
  IN
  /\ ~crashed
  /\ conn[c].st = "streaming"
  /\ s.st = "open"
  /\ IF n > 0
     THEN conn' = [conn EXCEPT ![c].body = @ \o SubSeq(s.data, s.pos + 1, s.pos + n),
                               ![c].stream.pos = s.pos + n]
     ELSE conn' = [conn EXCEPT ![c].st = "done",
                               ![c].stream = [NoStream EXCEPT !.st = "closed"]]
  /\ UNCHANGED <<storeVars, mongoVars, envVars, disk, clock, crashed>>

\* The client goes away before the body is complete, or the response fails
\* on its side: res emits 'close' (or 'error'), on which pipe unpipes the
\* read stream.  Nothing destroys the read stream, which stays as it is.
ClientDisconnect(c) ==
  /\ ~crashed
  /\ conn[c].st = "streaming"
  /\ conn' = [conn EXCEPT ![c].st = "aborted"]
  /\ UNCHANGED <<storeVars, mongoVars, envVars, disk, clock, crashed>>

\* A file of the GridFS bucket removed from outside the server.
GridFSLost(fileId) ==
  /\ ~crashed
  /\ fileId \in DOMAIN gridFS
  /\ gridFS' = [f \in DOMAIN gridFS \ {fileId} |-> gridFS[f]]
  /\ UNCHANGED <<storeVars, mediaFileDocs, envVars, disk, clock, conn, crashed>>

\* The host starts to fail in one way, or stops failing.
Fault(f) ==
  /\ ~crashed
  /\ faults' = IF faults = {} THEN {f} ELSE {}
  /\ UNCHANGED <<storeVars, mongoVars, backend, second, disk, clock, conn, crashed,
                 clientVars>>

\* A second goes by between two requests; requests that follow each other
\* without it fall into the same second.  Only the seconds that hold an
\* upload count: the clock of the uploads is ahead of the seconds.
SecondPasses ==
  /\ ~crashed
  /\ second + 1 < clock
  /\ second' = second + 1
  /\ UNCHANGED <<storeVars, mongoVars, backend, faults, disk, clock, conn, crashed,
                 clientVars>>

\* The uploads/ tree is a directory of the host: a file under it can be
\* removed from outside the server, which the existsSync checks of the
\* responders answer to.  A stream that has its file open keeps reading it.
BlobLost(path) ==
  /\ ~crashed
  /\ existsSync(path)
  /\ disk' = unlinkSync(disk, path)
  /\ UNCHANGED <<storeVars, mongoVars, envVars, clock, conn, crashed>>

\* ------------------------------------------------------------- system --
Init ==
  /\ mediaFilesMap = <<>>
  /\ audioRecordingsMap = <<>>
  /\ webglAssetsMap = <<>>
  /\ currentMediaFileId = 1
  /\ currentAudioRecordingId = 1
  /\ currentWebglAssetId = 1
  /\ disk = <<>>
  /\ clock = 1
  /\ conn = [c \in Conns |-> Idle]
  /\ crashed = FALSE
  /\ backend = "mem"
  /\ mediaFileDocs = <<>>
  /\ gridFS = <<>>
  /\ faults = {}
  /\ second = 0
  /\ ClientInit

\* ------------------------------------------------------------- inputs --
\* Route parameters: the ids a store has handed out, the next one, and one
\* that is no number.
IdParams(nextId) == {NumStr(i) : i \in 1..nextId} \cup {<<"x">>}

FilePart(fieldname, originalname, mimetype, bytes) ==
  [bytes |-> bytes, originalname |-> originalname, fieldname |-> fieldname,
   mimetype |-> mimetype]

VideoMetadata == {[duration |-> 0, resolution |-> ""], [duration |-> 7, resolution |-> "640x480"]}
\* The form of an audio upload and what ffprobe says of the file: the client's
\* form (name and duration), and a bare form with a probe that works or not.
AudioForms == {<<[duration |-> <<"5">>, name |-> "Recording A"], Some(5)>>,
               <<[duration |-> <<>>, name |-> ""], Some(5)>>,
               <<[duration |-> <<>>, name |-> ""], NaN>>}
AssetBodies == {[name |-> "", description |-> ""]}
WebglExtensions == {".gltf", ".GLB", ".exe"}
RenameNames == {<<>>, Some(" "), Some("Meeting Notes"), Some(" Notes ")}
PageParams == {<<"0">>, <<"2">>, <<"3">>}

\* The file the whole-system specification uploads: three bytes, which are
\* also a two-page document.
SpecBlobs == {<<0, 1, 1>>}
SpecRanges == {<<>>, <<"bytes=", "0", "-">>}

VideoUploads(blobs) ==
  {Some(FilePart("video", <<"clip", ".mp4">>, "video/mp4", b)) : b \in blobs}
PdfUploads(blobs) ==
  {Some(FilePart("pdf", <<"doc", ".pdf">>, "application/pdf", b)) : b \in blobs}
AudioUploads(blobs) ==
  {Some(FilePart("audio", <<"recording", ".webm">>, "audio/webm", b)) : b \in blobs}
AssetUploads(blobs) ==
  {Some(FilePart("webgl", <<"model", e>>, "application/octet-stream", b)) :
     e \in WebglExtensions, b \in blobs}

\* ----------------------------------------------------- the whole system --
\* Every route of registerRoutes, one request at a time on one connection,
\* with the reads of its piped response as steps of their own.
SpecConn == CHOOSE c \in Conns : \A d \in Conns : c <= d

Next ==
  \/ GetAllVideos(SpecConn)
  \/ \E id \in IdParams(currentMediaFileId) : GetVideoById(SpecConn, id)
  \/ \E id \in IdParams(currentMediaFileId), r \in SpecRanges : StreamVideo(SpecConn, id, r)
  \/ \E u \in VideoUploads(SpecBlobs), m \in VideoMetadata : UploadVideo(SpecConn, u, m)
  \/ UploadVideo(SpecConn, <<>>, CHOOSE m \in VideoMetadata : TRUE)
  \/ \E id \in IdParams(currentMediaFileId) : DeleteVideo(SpecConn, id)
  \/ GetAllPdfs(SpecConn)
  \/ \E id \in IdParams(currentMediaFileId) : GetPdfById(SpecConn, id)
  \/ \E id \in IdParams(currentMediaFileId), r \in SpecRanges : ViewPdf(SpecConn, id, r)
  \/ \E id \in IdParams(currentMediaFileId) : DownloadPdf(SpecConn, id)
  \/ \E id \in IdParams(currentMediaFileId), n \in PageParams : DownloadPdfPage(SpecConn, id, n)
  \/ \E u \in PdfUploads(SpecBlobs) \cup {<<>>} : UploadPdf(SpecConn, u)
  \/ \E id \in IdParams(currentMediaFileId) : DeletePdf(SpecConn, id)
  \/ GetAllRecordings(SpecConn)
  \/ \E id \in IdParams(currentAudioRecordingId) : GetRecordingById(SpecConn, id)
  \/ \E id \in IdParams(currentAudioRecordingId), r \in SpecRanges : StreamAudio(SpecConn, id, r)
  \/ \E id \in IdParams(currentAudioRecordingId) : DownloadAudio(SpecConn, id)
  \/ \E u \in AudioUploads(SpecBlobs), f \in AudioForms : UploadRecording(SpecConn, u, f[1], f[2])
  \/ UploadRecording(SpecConn, <<>>, [duration |-> <<>>, name |-> ""], NaN)
  \/ \E id \in IdParams(currentAudioRecordingId), n \in RenameNames :
       RenameRecording(SpecConn, id, n)
  \/ \E id \in IdParams(currentAudioRecordingId) : DeleteRecording(SpecConn, id)
  \/ GetAllAssets(SpecConn)
  \/ \E id \in IdParams(currentWebglAssetId) : GetAssetById(SpecConn, id)
  \/ \E id \in IdParams(currentWebglAssetId), r \in SpecRanges : ServeWebGLAsset(SpecConn, id, r)
  \/ \E u \in AssetUploads(SpecBlobs) \cup {<<>>}, b \in AssetBodies : UploadAsset(SpecConn, u, b)
  \/ \E id \in IdParams(currentWebglAssetId) : DeleteAsset(SpecConn, id)
  \/ StreamOpen(SpecConn)
  \/ StreamRead(SpecConn)

Spec == Init /\ [][Next]_vars

\* ------------------------------------------------------ range requests --
\* The two range responders under every shape of Range header: uploads of
\* blobs of every size up to MaxBlob, then stream requests.  The blob of
\* size n holds the bytes 1, 2, .., n (modulo 4), so that a window shifted
\* by one byte shows in the body.
RangeBlobs == {[i \in 1..n |-> i % 4] : n \in 0..MaxBlob}
\* The numbers a Range header carries: every offset up to one past the
\* largest blob, no number at all, and a word that is no number.
RangeNums == {NumStr(i) : i \in 0..(MaxBlob + 1)} \cup {<<>>, <<"x">>}
RangeHeaders ==
  {<<>>} \cup {<<"bytes=">> \o a \o <<"-">> \o b : a \in RangeNums, b \in RangeNums}

\* One video is uploaded, onto the empty store.
NextRange ==
  \/ \E u \in VideoUploads(RangeBlobs) :
       mediaFilesMap = <<>> /\ UploadVideo(SpecConn, u, [duration |-> 0, resolution |-> ""])
  \/ \E u \in AudioUploads(RangeBlobs) :
       UploadRecording(SpecConn, u, [duration |-> <<"5">>, name |-> "Recording A"], Some(5))
  \/ \E id \in IdParams(currentMediaFileId), r \in RangeHeaders : StreamVideo(SpecConn, id, r)
  \/ \E id \in IdParams(currentAudioRecordingId), r \in SpecRanges :
       StreamAudio(SpecConn, id, r)
  \/ StreamOpen(SpecConn)
  \/ StreamRead(SpecConn)

SpecRange == Init /\ [][NextRange]_vars

\* The header `bytes=start-end` and the open-ended `bytes=start-`.
RangeOf(start, end) == <<"bytes=">> \o NumStr(start) \o <<"-">> \o NumStr(end)
OpenRangeOf(start) == <<"bytes=">> \o NumStr(start) \o <<"-">>

\* The responders that answer with a blob, and where each looks it up.
StreamOps == {"streamVideo", "streamAudio"}
MediaBlobOps == {"streamVideo", "viewPdf", "downloadPdf", "downloadPdfPage"}
AudioBlobOps == {"streamAudio", "downloadAudio"}
WebglBlobOps == {"serveWebGLAsset"}
BlobOps == MediaBlobOps \cup AudioBlobOps \cup WebglBlobOps
MediaKind(op) == IF op = "streamVideo" THEN "video" ELSE "pdf"

\* The route parameter of a request names a record of the responder's kind.
HasRecord(req) ==
  LET id == parseInt(req.id)
  IN /\ IsNum(id)
     /\ CASE req.op \in MediaBlobOps ->
               /\ Val(id) \in DOMAIN mediaFilesMap
               /\ mediaFilesMap[Val(id)].fileType = MediaKind(req.op)
          [] req.op \in AudioBlobOps -> Val(id) \in DOMAIN audioRecordingsMap
          [] req.op \in WebglBlobOps -> Val(id) \in DOMAIN webglAssetsMap
          [] OTHER -> FALSE
\* Where the blob of that record is kept.
BlobPath(req) ==
  LET id == Val(parseInt(req.id))
  IN CASE req.op \in MediaBlobOps ->
            Path(MediaKind(req.op) \o "s", mediaFilesMap[id].filename)
       [] req.op \in AudioBlobOps -> Path("audio", audioRecordingsMap[id].filename)
       [] req.op \in WebglBlobOps -> Path("webgl", webglAssetsMap[id].filename)
\* The record exists and its blob is in storage; BlobOf is then that blob.
HasBlob(req) == HasRecord(req) /\ existsSync(BlobPath(req))
BlobOf(req) == disk[BlobPath(req)]

\* A response whose body is piped: complete when done, a prefix until then.
BodyIs(r, bytes) ==
  IF r.st = "done" THEN r.body = bytes
  ELSE Len(r.body) <= Len(bytes) /\ r.body = SubSeq(bytes, 1, Len(r.body))

\* C1: for every blob size S > 0 and every header bytes=start-end with
\* 0 <= start <= end < S, the stream responder answers 206 with
\* Content-Length end-start+1, Content-Range bytes start-end/S and
\* Accept-Ranges bytes, and the body piped is the blob's bytes start..end:
\* of every response of streamVideo and streamAudio the server holds, and
\* of streamAudio's header arithmetic and read window on every such input.
C1_ValidRange ==
  /\ \A c \in Conns :
       LET r == conn[c]
       IN (r.req.op \in StreamOps /\ HasBlob(r.req)) =>
            \A start \in 0..MaxBlob, end \in 0..MaxBlob :
              (start <= end /\ end < Len(BlobOf(r.req)) /\ r.req.range = RangeOf(start, end)) =>
                /\ r.status = 206
                /\ r.hdr.contentLength = Some(end - start + 1)
                /\ r.hdr.contentRange = <<"bytes", start, end, Len(BlobOf(r.req))>>
                /\ r.hdr.acceptRanges = "bytes"
                /\ BodyIs(r, SubSeq(BlobOf(r.req), start + 1, end + 1))
  /\ \A S \in 1..MaxBlob, start \in 0..MaxBlob, end \in 0..MaxBlob :
       (start <= end /\ end < S) =>
         LET h == RangeOf(start, end)
             w == Window(audioRangeStart(h), audioRangeEnd(h, S))
             hdr == audioRangeHeaders(Val(audioRangeStart(h)), Val(audioRangeEnd(h, S)), S)
             file == createReadStream(Path("audio", <<"audio", 1, ".webm">>), w)
         IN /\ ~createReadStreamThrows(w)
            /\ hdr.contentLength = Some(end - start + 1)
            /\ hdr.contentRange = <<"bytes", start, end, S>>
            /\ hdr.acceptRanges = "bytes"
            /\ file.pos = start
            /\ file.last = Some(end)

\* A complete 206 response to bytes=start-end with 0 < start < end < S.
C1_Witness ==
  \E c \in Conns :
    /\ conn[c].st = "done"
    /\ conn[c].req.op = "streamVideo"
    /\ HasBlob(conn[c].req)
    /\ \E start \in 1..MaxBlob, end \in 1..MaxBlob :
         /\ start < end
         /\ end < Len(BlobOf(conn[c].req))
         /\ conn[c].req.range = RangeOf(start, end)
         /\ conn[c].status = 206
         /\ Len(conn[c].body) = end - start + 1

\* C2: a stream request without Range header for a record whose blob is in
\* storage is answered 200 with Content-Length S, no Content-Range, and the
\* whole blob as body.
C2_NoRange ==
  /\ \A c \in Conns :
       LET r == conn[c]
       IN (r.req.op \in StreamOps /\ HasBlob(r.req) /\ r.req.range = <<>>) =>
            /\ r.status = 200
            /\ r.hdr.contentLength = Some(Len(BlobOf(r.req)))
            /\ r.hdr.contentRange = <<>>
            /\ BodyIs(r, BlobOf(r.req))
  /\ \A S \in 0..MaxBlob :
       /\ audioFullHeaders(S).contentLength = Some(S)
       /\ audioFullHeaders(S).contentRange = <<>>
       /\ createReadStream(Path("audio", <<"audio", 1, ".webm">>), NoOpts).pos = 0
       /\ createReadStream(Path("audio", <<"audio", 1, ".webm">>), NoOpts).last = <<>>

\* A complete 200 response carrying a blob of several reads.
C2_Witness ==
  \E c \in Conns :
    /\ conn[c].st = "done"
    /\ conn[c].req.op = "streamVideo"
    /\ conn[c].req.range = <<>>
    /\ conn[c].status = 200
    /\ HasBlob(conn[c].req)
    /\ Len(conn[c].body) > ChunkSize
    /\ conn[c].body = BlobOf(conn[c].req)

\* C3: for every S > 0 and every start < S, the answer to bytes=start- is
\* the answer to bytes=start-(S-1): same status, same headers, same read
\* window, S = 1 included.
C3_OpenEnded ==
  /\ \A id \in DOMAIN mediaFilesMap :
       LET req(range) == [op |-> "streamVideo", id |-> NumStr(id), range |-> range]
       IN HasBlob(req(<<>>)) =>
            \A start \in 0..MaxBlob :
              start < Len(BlobOf(req(<<>>))) =>
                LET open == streamVideoResponse(req(OpenRangeOf(start)))
                    closed == streamVideoResponse(
                                req(RangeOf(start, Len(BlobOf(req(<<>>))) - 1)))
                IN /\ open.st = closed.st
                   /\ open.status = closed.status
                   /\ open.hdr = closed.hdr
                   /\ open.json = closed.json
                   /\ open.stream = closed.stream
  /\ \A S \in 1..MaxBlob, start \in 0..MaxBlob :
       start < S =>
         /\ audioRangeStart(OpenRangeOf(start)) = audioRangeStart(RangeOf(start, S - 1))
         /\ audioRangeEnd(OpenRangeOf(start), S) = audioRangeEnd(RangeOf(start, S - 1), S)

\* A complete response to an open-ended range that starts inside the blob.
C3_Witness ==
  \E c \in Conns :
    /\ conn[c].st = "done"
    /\ conn[c].req.op = "streamVideo"
    /\ HasBlob(conn[c].req)
    /\ \E start \in 1..MaxBlob :
         /\ start < Len(BlobOf(conn[c].req))
         /\ conn[c].req.range = OpenRangeOf(start)
         /\ conn[c].status = 206
         /\ conn[c].body = SubSeq(BlobOf(conn[c].req), start + 1, Len(BlobOf(conn[c].req)))

\* C4: a range request whose start is at or beyond the blob size is answered
\* 416 with Content-Range bytes */S.
C4_Unsatisfiable ==
  \A c \in Conns :
    LET r == conn[c]
    IN (/\ r.req.op \in StreamOps
        /\ HasBlob(r.req)
        /\ \E start \in 0..(MaxBlob + 1), b \in RangeNums :
             /\ start >= Len(BlobOf(r.req))
             /\ r.req.range = <<"bytes=">> \o NumStr(start) \o <<"-">> \o b) =>
         /\ r.status = 416
         /\ r.hdr.contentRange = <<"bytes", "*", Len(BlobOf(r.req))>>

\* -------------------------------------------------- blobs that are gone --
\* Uploads of the four kinds, the removal of a blob from outside, and the
\* responders that answer with a blob.
NextLoss ==
  \/ \E u \in VideoUploads(SpecBlobs) :
       UploadVideo(SpecConn, u, [duration |-> 0, resolution |-> ""])
  \/ \E u \in PdfUploads(SpecBlobs) : UploadPdf(SpecConn, u)
  \/ \E u \in AudioUploads(SpecBlobs) :
       UploadRecording(SpecConn, u, [duration |-> <<"5">>, name |-> "Recording A"], Some(5))
  \/ \E u \in AssetUploads(SpecBlobs), b \in AssetBodies : UploadAsset(SpecConn, u, b)
  \/ \E path \in DOMAIN disk : BlobLost(path)
  \/ \E id \in IdParams(currentMediaFileId) : StreamVideo(SpecConn, id, <<>>)
  \/ \E id \in IdParams(currentMediaFileId) : ViewPdf(SpecConn, id, <<>>)
  \/ \E id \in IdParams(currentMediaFileId) : DownloadPdf(SpecConn, id)
  \/ \E id \in IdParams(currentMediaFileId) : DownloadPdfPage(SpecConn, id, <<"2">>)
  \/ \E id \in IdParams(currentAudioRecordingId) : StreamAudio(SpecConn, id, <<>>)
  \/ \E id \in IdParams(currentAudioRecordingId) : DownloadAudio(SpecConn, id)
  \/ \E id \in IdParams(currentWebglAssetId) : ServeWebGLAsset(SpecConn, id, <<>>)
  \/ StreamOpen(SpecConn)
  \/ StreamRead(SpecConn)

SpecLoss == Init /\ [][NextLoss]_vars

\* A step in which the slot c takes a request and the handler answers it.
Handled(c) == Free(c) /\ conn'[c] # conn[c]

\* C5: a stream, view, render or download request whose id names no record
\* of the kind, or a record whose blob is not in storage, is answered 404
\* with a {message} body and no read stream is opened.
C5_NotFound ==
  [][\A c \in Conns :
       (/\ Handled(c)
        /\ conn'[c].req.op \in BlobOps
        /\ IsNum(parseInt(conn'[c].req.id))
        /\ ~HasBlob(conn'[c].req)) =>
         /\ conn'[c].st = "done"
         /\ conn'[c].status = 404
         /\ conn'[c].json[1] = "message"
         /\ conn'[c].stream = NoStream]_vars

\* The 404 of viewPdf for a record whose blob is gone.
C5_Witness ==
  \E c \in Conns :
    /\ conn[c].req.op = "viewPdf"
    /\ conn[c].status = 404
    /\ HasRecord(conn[c].req)
    /\ ~existsSync(BlobPath(conn[c].req))

\* ------------------------------------------------- concurrent requests --
\* One blob of two windows' length is uploaded; then range requests for its
\* lower and its upper half on every slot, their opens and reads interleaved.
ConcBlob == [i \in 1..(2 * MaxBlob) |-> i % 4]
LowerHalf == RangeOf(0, MaxBlob - 1)
UpperHalf == RangeOf(MaxBlob, (2 * MaxBlob) - 1)

NextConc ==
  \E c \in Conns :
    \/ \E u \in VideoUploads({ConcBlob}) :
         mediaFilesMap = <<>> /\ UploadVideo(c, u, [duration |-> 0, resolution |-> ""])
    \/ \E id \in IdParams(currentMediaFileId), r \in {LowerHalf, UpperHalf} :
         mediaFilesMap # <<>> /\ StreamVideo(c, id, r)
    \/ StreamOpen(c)
    \/ StreamRead(c)

SpecConc == Init /\ [][NextConc]_vars

\* C6: with range requests in flight at the same time on several slots,
\* under every interleaving of their reads each response has the status and
\* headers of its own window, its body is the bytes of its own window read
\* so far, and its stream stands at its own window's start plus the bytes it
\* has itself delivered.
C6_Independent ==
  \A c \in Conns :
    LET r == conn[c]
    IN (r.req.op = "streamVideo" /\ HasBlob(r.req)) =>
         \A start \in 0..(2 * MaxBlob), end \in 0..(2 * MaxBlob) :
           (start <= end /\ end < Len(BlobOf(r.req)) /\ r.req.range = RangeOf(start, end)) =>
             /\ r.status = 206
             /\ r.hdr.contentLength = Some(end - start + 1)
             /\ r.hdr.contentRange = <<"bytes", start, end, Len(BlobOf(r.req))>>
             /\ BodyIs(r, SubSeq(BlobOf(r.req), start + 1, end + 1))
             /\ r.stream.st = "open" => r.stream.pos = start + Len(r.body)

\* Two responses in the middle of their bodies, one on each half of the blob.
C6_Witness ==
  \E c \in Conns, d \in Conns :
    /\ conn[c].st = "streaming" /\ conn[d].st = "streaming"
    /\ conn[c].req.range = LowerHalf /\ conn[d].req.range = UpperHalf
    /\ conn[c].req.id = conn[d].req.id
    /\ conn[c].stream.st = "open" /\ conn[d].stream.st = "open"
    /\ Len(conn[c].body) \in 1..(MaxBlob - 1)
    /\ Len(conn[d].body) \in 1..(MaxBlob - 1)

\* ------------------------------------------------------ record lifecycle --
\* The by-id routes of each store, its list routes and its delete routes.
MediaIdOps == {"getVideoById", "streamVideo", "deleteVideo", "getPdfById", "viewPdf", "deletePdf"}
AudioIdOps == {"getRecordingById", "streamAudio", "deleteRecording"}
WebglIdOps == {"getAssetById", "serveWebGLAsset", "deleteAsset"}
MediaListOps == {"getAllVideos", "getAllPdfs"}

\* The life of a record: uploads of the four kinds, and the list, get-by-id,
\* stream and delete routes of each.
NextLife ==
  \/ \E u \in VideoUploads(SpecBlobs) :
       UploadVideo(SpecConn, u, [duration |-> 0, resolution |-> ""])
  \/ \E u \in PdfUploads(SpecBlobs) : UploadPdf(SpecConn, u)
  \/ \E u \in AudioUploads(SpecBlobs) :
       UploadRecording(SpecConn, u, [duration |-> <<"5">>, name |-> "Recording A"], Some(5))
  \/ \E u \in AssetUploads(SpecBlobs), b \in AssetBodies : UploadAsset(SpecConn, u, b)
  \/ GetAllVideos(SpecConn)
  \/ GetAllPdfs(SpecConn)
  \/ GetAllRecordings(SpecConn)
  \/ GetAllAssets(SpecConn)
  \/ \E id \in IdParams(currentMediaFileId) : GetVideoById(SpecConn, id)
  \/ \E id \in IdParams(currentMediaFileId) : GetPdfById(SpecConn, id)
  \/ \E id \in IdParams(currentAudioRecordingId) : GetRecordingById(SpecConn, id)
  \/ \E id \in IdParams(currentWebglAssetId) : GetAssetById(SpecConn, id)
  \/ \E id \in IdParams(currentMediaFileId), r \in SpecRanges : StreamVideo(SpecConn, id, r)
  \/ \E id \in IdParams(currentMediaFileId) : ViewPdf(SpecConn, id, <<>>)
  \/ \E id \in IdParams(currentAudioRecordingId), r \in SpecRanges : StreamAudio(SpecConn, id, r)
  \/ \E id \in IdParams(currentWebglAssetId) : ServeWebGLAsset(SpecConn, id, <<>>)
  \/ \E id \in IdParams(currentMediaFileId) : DeleteVideo(SpecConn, id)
  \/ \E id \in IdParams(currentMediaFileId) : DeletePdf(SpecConn, id)
  \/ \E id \in IdParams(currentAudioRecordingId) : DeleteRecording(SpecConn, id)
  \/ \E id \in IdParams(currentWebglAssetId) : DeleteAsset(SpecConn, id)
  \/ \E id \in IdParams(currentAudioRecordingId), n \in RenameNames :
       RenameRecording(SpecConn, id, n)
  \/ StreamOpen(SpecConn)
  \/ StreamRead(SpecConn)

SpecLife == Init /\ [][NextLife]_vars

\* An id its store handed out and holds no more.  Ids are handed out in
\* order and only a delete drops a record, so these are the deleted ids.
GoneMedia(id) == id \in 1..(currentMediaFileId - 1) /\ id \notin DOMAIN mediaFilesMap
GoneAudio(id) == id \in 1..(currentAudioRecordingId - 1) /\ id \notin DOMAIN audioRecordingsMap
GoneWebgl(id) == id \in 1..(currentWebglAssetId - 1) /\ id \notin DOMAIN webglAssetsMap

ListedIds(r) == {r.json[2][i].id : i \in 1..Len(r.json[2])}

\* C7: a DELETE answered 204 takes the record and its blob out of the store
\* in that step; a record that is gone stays gone; and every request handled
\* while it is gone finds it gone: get-by-id, stream and DELETE answer 404,
\* and a list does not hold it.
C7_DeletedStaysGone ==
  [][/\ \A c \in Conns :
          (Handled(c) /\ conn'[c].status = 204) =>
            LET id == Val(parseInt(conn'[c].req.id))
            IN CASE conn'[c].req.op \in {"deleteVideo", "deletePdf"} ->
                      /\ id \in DOMAIN mediaFilesMap
                      /\ id \notin DOMAIN mediaFilesMap'
                      /\ Path(mediaFilesMap[id].fileType \o "s", mediaFilesMap[id].filename)
                           \notin DOMAIN disk'
                 [] conn'[c].req.op = "deleteRecording" ->
                      /\ id \in DOMAIN audioRecordingsMap
                      /\ id \notin DOMAIN audioRecordingsMap'
                 [] conn'[c].req.op = "deleteAsset" ->
                      /\ id \in DOMAIN webglAssetsMap
                      /\ id \notin DOMAIN webglAssetsMap'
                      /\ Path("webgl", webglAssetsMap[id].filename) \notin DOMAIN disk'
                 [] OTHER -> FALSE
     /\ \A id \in 1..currentMediaFileId : GoneMedia(id) => GoneMedia(id)'
     /\ \A id \in 1..currentAudioRecordingId : GoneAudio(id) => GoneAudio(id)'
     /\ \A id \in 1..currentWebglAssetId : GoneWebgl(id) => GoneWebgl(id)'
     /\ \A c \in Conns :
          Handled(c) =>
            LET r == conn'[c]
                id == parseInt(r.req.id)
            IN /\ (r.req.op \in MediaIdOps /\ IsNum(id) /\ GoneMedia(Val(id))) => r.status = 404
               /\ (r.req.op \in AudioIdOps /\ IsNum(id) /\ GoneAudio(Val(id))) => r.status = 404
               /\ (r.req.op \in WebglIdOps /\ IsNum(id) /\ GoneWebgl(Val(id))) => r.status = 404
               /\ r.req.op \in MediaListOps => \A id2 \in ListedIds(r) : ~GoneMedia(id2)
               /\ r.req.op = "getAllRecordings" => \A id2 \in ListedIds(r) : ~GoneAudio(id2)
               /\ r.req.op = "getAllAssets" => \A id2 \in ListedIds(r) : ~GoneWebgl(id2)]_vars

\* The second DELETE of a video: 404 for an id that was deleted.
C7_Witness ==
  \E c \in Conns :
    /\ conn[c].req.op = "deleteVideo"
    /\ conn[c].status = 404
    /\ IsNum(parseInt(conn[c].req.id))
    /\ GoneMedia(Val(parseInt(conn[c].req.id)))

\* C8: an upload of any of the four kinds that carries a file passing the
\* extension allow-list is answered 201 with the created record, and list and
\* get-by-id of the kind return that record.
C8_UploadCreates ==
  \A c \in Conns :
    LET r == conn[c]
    IN (/\ r.req.op \in {"uploadVideo", "uploadPdf", "uploadRecording", "uploadAsset"}
        /\ r.req.upload # <<>>
        /\ ~fileFilterRejects(r.req.upload[1])) =>
         /\ r.status = 201
         /\ r.json[1] = "record"
         /\ CASE r.req.op = "uploadVideo" ->
                   /\ getMediaFileById(r.json[2].id) = Some(r.json[2])
                   /\ \E i \in DOMAIN getMediaFiles("video") : getMediaFiles("video")[i] = r.json[2]
              [] r.req.op = "uploadPdf" ->
                   /\ getMediaFileById(r.json[2].id) = Some(r.json[2])
                   /\ \E i \in DOMAIN getMediaFiles("pdf") : getMediaFiles("pdf")[i] = r.json[2]
              [] r.req.op = "uploadRecording" ->
                   /\ getAudioRecordingById(r.json[2].id) = Some(r.json[2])
                   /\ \E i \in DOMAIN getAudioRecordings : getAudioRecordings[i] = r.json[2]
              [] r.req.op = "uploadAsset" ->
                   /\ getWebGLAssetById(r.json[2].id) = Some(r.json[2])
                   /\ \E i \in DOMAIN getWebGLAssets : getWebGLAssets[i] = r.json[2]

\* C9: the recording an upload has just made can be renamed, and the rename
\* changes its name alone: on a server whose one upload so far is an audio
\* upload with an accepted file, the next request, a PATCH of recording 1
\* with the name "Meeting Notes", is answered 200 with that recording under
\* the new name, every other field and every other recording as stored.
C9_RenameOnlyName ==
  [][\A c \in Conns :
       (/\ Handled(c)
        /\ conn[c].req.op = "uploadRecording"
        /\ conn[c].req.upload # <<>>
        /\ ~fileFilterRejects(conn[c].req.upload[1])
        /\ clock = 2
        /\ conn'[c].req.op = "renameRecording"
        /\ conn'[c].req.id = NumStr(1)
        /\ conn'[c].req.name = Some("Meeting Notes")) =>
         /\ conn'[c].status = 200
         /\ 1 \in DOMAIN audioRecordingsMap
         /\ audioRecordingsMap' = [audioRecordingsMap EXCEPT ![1].name = "Meeting Notes"]
         /\ conn'[c].json = <<"record", audioRecordingsMap'[1]>>]_vars

\* C10: the upload of a WebGL asset whose extension is outside the allow-list
\* is answered 400.
C10_BadExtension ==
  \A c \in Conns :
    LET r == conn[c]
    IN (/\ r.req.op = "uploadAsset"
        /\ r.req.upload # <<>>
        /\ ToLower(extname(r.req.upload[1].originalname)) \notin allowedExtensions) =>
         r.status = 400

\* C11: a WebGL upload whose extension is outside the allow-list creates no
\* record and leaves no blob: the records of every store and the blobs on
\* disk are the same after the request as before it.
C11_RejectedLeavesNothing ==
  [][\A c \in Conns :
       (/\ Handled(c)
        /\ conn'[c].req.op = "uploadAsset"
        /\ conn'[c].req.upload # <<>>
        /\ ToLower(extname(conn'[c].req.upload[1].originalname)) \notin allowedExtensions) =>
         /\ webglAssetsMap' = webglAssetsMap
         /\ mediaFilesMap' = mediaFilesMap
         /\ audioRecordingsMap' = audioRecordingsMap
         /\ DOMAIN disk' = DOMAIN disk
         /\ disk' = disk]_vars

\* The rejection of an .exe upload on a server that holds an asset already.
C11_Witness ==
  \E c \in Conns :
    /\ conn[c].req.op = "uploadAsset"
    /\ conn[c].req.upload # <<>>
    /\ extname(conn[c].req.upload[1].originalname) = ".exe"
    /\ conn[c].st = "done"
    /\ conn[c].status >= 400
    /\ webglAssetsMap # <<>>
    /\ \E id \in DOMAIN webglAssetsMap : existsSync(Path("webgl", webglAssetsMap[id].filename))

\* ---------------------------------------------------- the two backends --
\* The media file routes over either implementation of IStorage, with the
\* failures of the host each of them meets: an unlink that is refused under
\* MemStorage, a save or a GridFS delete that fails under MongoStorage, and
\* blobs removed from outside.
InitBackend ==
  /\ mediaFilesMap = <<>>
  /\ audioRecordingsMap = <<>>
  /\ webglAssetsMap = <<>>
  /\ currentMediaFileId = 1
  /\ currentAudioRecordingId = 1
  /\ currentWebglAssetId = 1
  /\ disk = <<>>
  /\ clock = 1
  /\ conn = [c \in Conns |-> Idle]
  /\ crashed = FALSE
  /\ backend \in {"mem", "mongo"}
  /\ mediaFileDocs = <<>>
  /\ gridFS = <<>>
  /\ faults = {}
  /\ second = 0
  /\ ClientInit

\* Route parameters: the ids the backend can have handed out, and one more.
BackendIdParams ==
  {NumStr(i) : i \in 0..(IF backend = "mongo" THEN second + 1
                         ELSE currentMediaFileId)}
BackendFaults == IF backend = "mongo" THEN {"save", "gridfsDelete"} ELSE {"unlink"}

NextBackend ==
  \/ \E u \in VideoUploads(SpecBlobs), m \in VideoMetadata : UploadVideo(SpecConn, u, m)
  \/ \E u \in PdfUploads(SpecBlobs) : UploadPdf(SpecConn, u)
  \/ GetAllVideos(SpecConn)
  \/ \E id \in BackendIdParams : GetVideoById(SpecConn, id)
  \/ \E id \in BackendIdParams : StreamVideo(SpecConn, id, <<>>)
  \/ \E id \in BackendIdParams : DeleteVideo(SpecConn, id)
  \/ \E id \in BackendIdParams : DeletePdf(SpecConn, id)
  \/ \E f \in BackendFaults : Fault(f)
  \/ SecondPasses
  \/ \E path \in DOMAIN disk : BlobLost(path)
  \/ \E fileId \in DOMAIN gridFS : GridFSLost(fileId)
  \/ StreamOpen(SpecConn)
  \/ StreamRead(SpecConn)

SpecBackend == InitBackend /\ [][NextBackend]_vars

UploadOps == {"uploadVideo", "uploadPdf", "uploadRecording", "uploadAsset"}

\* C12: under either backend, an upload request that carries a file and is
\* answered with a status other than 201 leaves nothing behind: after the
\* request no blob store (uploads/ or the GridFS bucket) holds a blob it did
\* not hold before, and no store holds a record it did not hold before.
C12_FailedUploadLeavesNothing ==
  [][\A c \in Conns :
       (/\ Handled(c)
        /\ conn'[c].req.op \in UploadOps
        /\ conn'[c].req.upload # <<>>
        /\ conn'[c].status # 201) =>
         /\ DOMAIN disk' \subseteq DOMAIN disk
         /\ DOMAIN gridFS' \subseteq DOMAIN gridFS
         /\ mediaFileDocs' = mediaFileDocs
         /\ mediaFilesMap' = mediaFilesMap
         /\ audioRecordingsMap' = audioRecordingsMap
         /\ webglAssetsMap' = webglAssetsMap]_vars

\* ------------------------------------------------- the life of a stream --
\* One video, stream requests on every slot, the opens and reads of their
\* read streams, and clients that go away in the middle.  The event loop
\* runs every open and every read that is due.
NextStream ==
  \E c \in Conns :
    \/ \E u \in VideoUploads(RangeBlobs) :
         mediaFilesMap = <<>> /\ UploadVideo(c, u, [duration |-> 0, resolution |-> ""])
    \/ \E id \in IdParams(currentMediaFileId), r \in SpecRanges :
         mediaFilesMap # <<>> /\ StreamVideo(c, id, r)
    \/ StreamOpen(c)
    \/ StreamRead(c)
    \/ ClientDisconnect(c)

SpecStream ==
  /\ Init
  /\ [][NextStream]_vars
  /\ \A c \in Conns : WF_vars(StreamOpen(c)) /\ WF_vars(StreamRead(c))

StreamIsOpen(c) == conn[c].stream.st \in {"opening", "open"}

\* C13: every read stream a streaming response has opened is closed in the
\* end, whether the response completes, the client goes away before the body
\* is sent, or the response fails on its side.
C13_StreamsClosed ==
  \A c \in Conns : StreamIsOpen(c) ~> (~StreamIsOpen(c) \/ crashed)

\* ------------------------------------------- a delete during a stream --
\* One video, and on every slot stream requests and deletes of it, with the
\* opens and reads of the read streams in any order between them.
NextRace ==
  \E c \in Conns :
    \/ \E u \in VideoUploads(RangeBlobs) :
         mediaFilesMap = <<>> /\ UploadVideo(c, u, [duration |-> 0, resolution |-> ""])
    \/ \E id \in IdParams(currentMediaFileId), r \in SpecRanges :
         mediaFilesMap # <<>> /\ StreamVideo(c, id, r)
    \/ \E id \in IdParams(currentMediaFileId) : DeleteVideo(c, id)
    \/ StreamOpen(c)
    \/ StreamRead(c)

SpecRace == Init /\ [][NextRace]_vars

\* C14: a delete of a record that falls between the existence check of a
\* stream request and the opening of its file never brings the server
\* process down: the read stream's failure ends that one response only.
C14_NeverCrashed ==
  ~crashed

\* ------------------------------------------------ the attribute groups --
\* The attribute group of a media record that belongs to its fileType is
\* populated and the other one is null.
OneGroupPopulated(f) ==
  CASE f.fileType = "video" ->
         f.duration # Null /\ f.resolution # Null /\ f.pageCount = Null
    [] f.fileType = "pdf" ->
         f.pageCount # Null /\ f.duration = Null /\ f.resolution = Null
    [] OTHER -> FALSE

\* C15: every stored MediaFile record, in the map of MemStorage and in the
\* collection of MongoStorage, has exactly the attribute group of its
\* fileType populated, also when the metadata are the defaults.
C15_OneGroupPopulated ==
  /\ \A id \in DOMAIN mediaFilesMap : OneGroupPopulated(mediaFilesMap[id])
  /\ \A i \in DOMAIN mediaFileDocs : OneGroupPopulated(mediaFileDocs[i])

\* --------------------------------------------- one contract, two stores --
\* The blob of a record is where the backend's create put it: under
\* uploads/<fileType>s for MemStorage, in the GridFS bucket for MongoStorage.
BlobStored(rec) ==
  IF backend = "mongo"
  THEN \E i \in DOMAIN mediaFileDocs :
         /\ mediaFileDocs[i].filename = rec.filename
         /\ mediaFileDocs[i].fileId \in DOMAIN gridFS
  ELSE existsSync(Path(rec.fileType \o "s", rec.filename))

\* C16: under either backend a stream request for a video that was just
\* created (201), and whose blob the backend still stores, is answered with
\* the blob: 200 or 206, not 404.
C16_StreamAfterCreate ==
  [][\A c \in Conns :
       (/\ Handled(c)
        /\ conn[c].req.op = "uploadVideo"
        /\ conn[c].status = 201
        /\ conn'[c].req.op = "streamVideo"
        /\ conn'[c].req.id = NumStr(conn[c].json[2].id)
        /\ BlobStored(conn[c].json[2]))
       => conn'[c].status \in {200, 206}]_vars

\* ------------------------------------------------- deletes that half fail --
\* Uploads and deletes over either backend, with the failures of the host,
\* the loss of blobs and the passing of seconds between them.
NextDelete ==
  \/ \E u \in VideoUploads(SpecBlobs) :
       UploadVideo(SpecConn, u, [duration |-> 0, resolution |-> ""])
  \/ \E u \in PdfUploads(SpecBlobs) : UploadPdf(SpecConn, u)
  \/ \E id \in BackendIdParams : DeleteVideo(SpecConn, id)
  \/ \E id \in BackendIdParams : DeletePdf(SpecConn, id)
  \/ \E f \in BackendFaults : Fault(f)
  \/ SecondPasses
  \/ \E path \in DOMAIN disk : BlobLost(path)
  \/ \E fileId \in DOMAIN gridFS : GridFSLost(fileId)

SpecDelete == InitBackend /\ [][NextDelete]_vars

\* rec is a record of the store `map` (MemStorage) or `docs` (MongoStorage).
RecordStoredIn(rec, map, docs) ==
  IF backend = "mongo"
  THEN \E i \in DOMAIN docs : mediaFileOfDoc(docs[i]) = rec
  ELSE rec.id \in DOMAIN map /\ map[rec.id] = rec

DeleteOps == [deleteVideo |-> "video", deletePdf |-> "pdf"]

\* The record a delete request names, when it is one of the kind of its route.
DeleteTarget(req) ==
  IF ~IsNum(parseInt(req.id)) THEN Null
  ELSE LET rec == storageGetMediaFileById(Val(parseInt(req.id)))
       IN IF rec # Null /\ Val(rec).fileType = DeleteOps[req.op] THEN rec ELSE Null

\* C17: a delete of a stored record always gets its answer, 204 or 500, and
\* the process goes on; when the blob is already missing from blob storage
\* the answer is 204; and with every 204 the record is removed.
C17_DeleteTolerates ==
  [][\A c \in Conns :
       (/\ Handled(c)
        /\ conn'[c].req.op \in DOMAIN DeleteOps
        /\ DeleteTarget(conn'[c].req) # Null) =>
         LET rec == Val(DeleteTarget(conn'[c].req))
         IN /\ conn'[c].st = "done"
            /\ conn'[c].status \in {204, 500}
            /\ ~crashed'
            /\ ~BlobStored(rec) => conn'[c].status = 204
            /\ conn'[c].status = 204 => ~RecordStoredIn(rec, mediaFilesMap', mediaFileDocs')
            /\ conn'[c].status = 500 => RecordStoredIn(rec, mediaFilesMap', mediaFileDocs')]_vars

\* A delete whose unlink failed: answered 500, the record is kept and the
\* process goes on.
C17_Witness ==
  \E c \in Conns :
    /\ conn[c].req.op \in DOMAIN DeleteOps
    /\ conn[c].status = 500
    /\ "unlink" \in faults
    /\ mediaFilesMap # <<>>
    /\ ~crashed

\* ------------------------------------------------- records and blobs --
\* The blob paths the records of MemStorage name, kind by kind.
RecordBlobs ==
  [kind \in {"media", "audio", "webgl"} |->
     CASE kind = "media" ->
            {Path(mediaFilesMap[id].fileType \o "s", mediaFilesMap[id].filename) :
               id \in DOMAIN mediaFilesMap}
       [] kind = "audio" ->
            {Path("audio", audioRecordingsMap[id].filename) : id \in DOMAIN audioRecordingsMap}
       [] OTHER ->
            {Path("webgl", webglAssetsMap[id].filename) : id \in DOMAIN webglAssetsMap}]

Quiescent == \A c \in Conns : conn[c].st \in {"idle", "done"}

DeletedBy(ops, id) ==
  \E c \in Conns :
    /\ Handled(c)
    /\ conn'[c].req.op \in ops
    /\ conn'[c].status = 204
    /\ parseInt(conn'[c].req.id) = Some(id)

\* C19: a MediaFile or WebglAsset record stays in its store with every field
\* as it was created, whatever request is handled, until the DELETE of its
\* own id is answered 204.
C19_Immutable ==
  [][/\ \A id \in DOMAIN mediaFilesMap :
          \/ id \in DOMAIN mediaFilesMap' /\ mediaFilesMap'[id] = mediaFilesMap[id]
          \/ DeletedBy({"deleteVideo", "deletePdf"}, id)
     /\ \A id \in DOMAIN webglAssetsMap :
          \/ id \in DOMAIN webglAssetsMap' /\ webglAssetsMap'[id] = webglAssetsMap[id]
          \/ DeletedBy({"deleteAsset"}, id)]_vars

\* A second upload answered 201 next to the record of the first.
C19_Witness ==
  /\ \E c \in Conns : conn[c].req.op \in UploadOps /\ conn[c].status = 201
  /\ Cardinality(DOMAIN mediaFilesMap) + Cardinality(DOMAIN webglAssetsMap) >= 2

\* ------------------------------------------------ one response a request --
\* C20: a request taken by a handler gets its response in that step, and a
\* failure is one complete 4xx/5xx response with a {message} body and no
\* stream behind it; what follows the status line and the headers of a
\* response (the opens and reads of its stream) never writes a status line,
\* headers or a JSON body again.
C20_OneResponse ==
  [][\A c \in Conns :
       /\ Handled(c) =>
            /\ conn'[c].st \in {"done", "streaming"}
            /\ conn'[c].status \in 200..599
            /\ conn'[c].status >= 400 =>
                 /\ conn'[c].st = "done"
                 /\ conn'[c].json # <<>>
                 /\ conn'[c].json[1] = "message"
                 /\ conn'[c].body = <<>>
                 /\ conn'[c].stream = NoStream
       /\ ~Handled(c) =>
            /\ conn'[c].req = conn[c].req
            /\ conn'[c].status = conn[c].status
            /\ conn'[c].hdr = conn[c].hdr
            /\ conn'[c].json = conn[c].json]_vars

\* An upload that the file filter refused with an exception: the error
\* middleware's one response is 500 {message}.
C20_Witness ==
  \E c \in Conns :
    /\ conn[c].st = "done"
    /\ conn[c].req.op \in UploadOps
    /\ conn[c].status = 500
    /\ conn[c].json = Message("Invalid file type for WebGL upload")

\* ------------------------------------------------------ pages of a PDF --
\* Documents of 0 .. MaxBlob - 1 pages, and a file that is no document.
PdfDocs == {[i \in 1..n |-> IF i = 1 THEN 0 ELSE 1] : n \in 1..MaxBlob} \cup {<<1, 1>>}
PdfPageParams == {NumStr(i) : i \in 0..MaxBlob} \cup {<<"x">>}

NextPdf ==
  \/ \E u \in PdfUploads(PdfDocs) : UploadPdf(SpecConn, u)
  \/ \E id \in IdParams(currentMediaFileId) : GetPdfById(SpecConn, id)
  \/ \E id \in IdParams(currentMediaFileId), p \in PdfPageParams :
       DownloadPdfPage(SpecConn, id, p)

SpecPdf == Init /\ [][NextPdf]_vars

\* The request asks for a page of a stored pdf record whose blob is a
\* document.
PageRequest(req) ==
  /\ req.op = "downloadPdfPage"
  /\ IsNum(parseInt(req.id)) /\ IsNum(parseInt(req.pageNum))
  /\ Val(parseInt(req.id)) \in DOMAIN mediaFilesMap
  /\ mediaFilesMap[Val(parseInt(req.id))].fileType = "pdf"
  /\ existsSync(Path("pdfs", mediaFilesMap[Val(parseInt(req.id))].filename))
  /\ pdfLoads(disk[Path("pdfs", mediaFilesMap[Val(parseInt(req.id))].filename)])

\* The answer to a page request is the one-page document of that page.
PageAnswer(res, bytes, p) ==
  /\ res.status = 200
  /\ res.body = <<0, 1>>
  /\ \E k \in 1..Len(bytes) :
       /\ bytes[k] = 1
       /\ Cardinality({j \in 1..k : bytes[j] = 1}) = p
       /\ res.json = <<"page", k>>

\* C21: a page request for a document of N pages is answered with the
\* one-page document of page pageNum when 1 <= pageNum <= N, and with 400
\* and no document otherwise; and an uploaded file that parses as a document
\* of N pages is stored with pageCount = N.
C21_PageDownload ==
  [][\A c \in Conns :
       /\ (Handled(c) /\ PageRequest(conn'[c].req)) =>
            LET bytes == disk[Path("pdfs", mediaFilesMap[Val(parseInt(conn'[c].req.id))].filename)]
                N == Cardinality({j \in 1..Len(bytes) : bytes[j] = 1})
                p == Val(parseInt(conn'[c].req.pageNum))
            IN IF 1 <= p /\ p <= N
               THEN PageAnswer(conn'[c], bytes, p)
               ELSE conn'[c].status = 400 /\ conn'[c].body = <<>>
       /\ (/\ Handled(c)
           /\ conn'[c].req.op = "uploadPdf"
           /\ conn'[c].status = 201
           /\ pdfLoads(Val(conn'[c].req.upload).bytes)) =>
            LET bytes == Val(conn'[c].req.upload).bytes
            IN conn'[c].json[2].pageCount =
                 Some(Cardinality({j \in 1..Len(bytes) : bytes[j] = 1}))]_vars

\* ------------------------------------------------- formats of an asset --
\* Asset files of every allowed extension, in both cases, and of one that
\* is not allowed; and a video and a document with that extension.
AssetExtensions == {".gltf", ".GLB", ".png", ".fbx", ".FBX", ".exe"}

NextWebgl ==
  \/ \E e \in AssetExtensions, b \in AssetBodies :
       UploadAsset(SpecConn, Some(FilePart("webgl", <<"model", e>>, "application/octet-stream",
                                           <<0, 1, 1>>)), b)
  \/ UploadVideo(SpecConn, Some(FilePart("video", <<"clip", ".exe">>, "video/mp4", <<0, 1, 1>>)),
                 [duration |-> 0, resolution |-> ""])
  \/ UploadPdf(SpecConn, Some(FilePart("pdf", <<"doc", ".exe">>, "application/pdf", <<0, 1, 1>>)))
  \/ GetAllAssets(SpecConn)
  \/ \E id \in IdParams(currentWebglAssetId) : DeleteAsset(SpecConn, id)

SpecWebgl == Init /\ [][NextWebgl]_vars

FormatOf == [e \in allowedExtensions |->
               CASE e = ".gltf" -> "GLTF" [] e = ".glb" -> "GLB" [] e = ".png" -> "PNG"
                 [] OTHER -> "Unknown"]

\* C22: the file of every stored WebglAsset has an extension of the
\* allow-list, up to case, and the asset's format is the one of that
\* extension; an upload of another kind is stored whatever its extension.
C22_AssetFormats ==
  [][/\ \A id \in DOMAIN webglAssetsMap' :
          LET asset == webglAssetsMap'[id]
              ext == ToLower(asset.filename[3])
          IN /\ ext \in allowedExtensions
             /\ asset.format = FormatOf[ext]
             /\ asset.format \in {"GLTF", "GLB", "PNG", "Unknown"}
     /\ \A c \in Conns :
          (/\ Handled(c)
           /\ conn'[c].req.op \in {"uploadVideo", "uploadPdf"}
           /\ ToLower(extname(Val(conn'[c].req.upload).originalname)) \notin allowedExtensions)
          => /\ conn'[c].status = 201
             /\ Cardinality(DOMAIN mediaFilesMap') = Cardinality(DOMAIN mediaFilesMap) + 1]_vars

\* Assets of an upper-case .GLB and of an .fbx file are stored.
C22_Witness ==
  \E i, j \in DOMAIN webglAssetsMap :
    /\ webglAssetsMap[i].filename[3] = ".GLB" /\ webglAssetsMap[i].format = "GLB"
    /\ ToLower(webglAssetsMap[j].filename[3]) = ".fbx"
    /\ webglAssetsMap[j].format = "Unknown"

\* -------------------------------------------------- full-body responders --
\* A document and an asset, and view and render requests for them with and
\* without a Range header, with the opens and reads of their streams.
NextView ==
  \/ \E u \in PdfUploads(SpecBlobs) : UploadPdf(SpecConn, u)
  \/ \E u \in AssetUploads(SpecBlobs), b \in AssetBodies : UploadAsset(SpecConn, u, b)
  \/ \E id \in IdParams(currentMediaFileId), r \in SpecRanges \cup {LowerHalf} :
       ViewPdf(SpecConn, id, r)
  \/ \E id \in IdParams(currentWebglAssetId), r \in SpecRanges \cup {LowerHalf} :
       ServeWebGLAsset(SpecConn, id, r)
  \/ StreamOpen(SpecConn)
  \/ StreamRead(SpecConn)

SpecView == Init /\ [][NextView]_vars

\* The blob a view or render request names, <<>> when the record or the
\* blob is missing.
ViewedBlob(req) ==
  LET id == parseInt(req.id)
      path == IF ~IsNum(id) THEN <<>>
              ELSE IF req.op = "viewPdf"
              THEN IF Val(id) \in DOMAIN mediaFilesMap /\ mediaFilesMap[Val(id)].fileType = "pdf"
                   THEN Path("pdfs", mediaFilesMap[Val(id)].filename) ELSE <<>>
              ELSE IF Val(id) \in DOMAIN webglAssetsMap
                   THEN Path("webgl", webglAssetsMap[Val(id)].filename) ELSE <<>>
  IN IF path # <<>> /\ existsSync(path) THEN Some(disk[path]) ELSE Null

\* C23: a view or render request for a record whose blob is stored is
\* answered 200 without Content-Range, with or without a Range header, and
\* once the response is complete its body is the whole blob.
C23_FullBody ==
  [][\A c \in Conns :
       /\ (/\ Handled(c)
           /\ conn'[c].req.op \in {"viewPdf", "serveWebGLAsset"}
           /\ ViewedBlob(conn'[c].req) # Null) =>
            /\ conn'[c].status = 200
            /\ conn'[c].hdr.contentRange = <<>>
            /\ conn'[c].st = "streaming"
       /\ (/\ conn'[c].req.op \in {"viewPdf", "serveWebGLAsset"}
           /\ conn'[c].st = "done"
           /\ conn[c].st = "streaming") =>
            /\ conn'[c].status = 200
            /\ conn'[c].body = Val(ViewedBlob(conn'[c].req))]_vars

\* A view request with a Range header, answered in full.
C23_Witness ==
  \E c \in Conns :
    /\ conn[c].req.op = "viewPdf"
    /\ conn[c].req.range # <<>>
    /\ conn[c].st = "done"
    /\ conn[c].status = 200
    /\ conn[c].body = <<0, 1, 1>>

\* --------------------------------------------------- the declared window --
\* C24: in every 206 response to a range request that starts inside the
\* blob, the declared window lies inside the blob, 0 <= start <= end <= S-1,
\* and the declared Content-Length is the number of bytes the complete body
\* holds.
C24_WindowInside ==
  \A c \in Conns :
    LET r == conn[c]
    IN (/\ r.req.op \in StreamOps
        /\ r.status = 206
        /\ HasBlob(r.req)
        /\ r.hdr.contentRange[2] < Len(BlobOf(r.req))) =>
         /\ 0 <= r.hdr.contentRange[2]
         /\ r.hdr.contentRange[2] <= r.hdr.contentRange[3]
         /\ r.hdr.contentRange[3] <= Len(BlobOf(r.req)) - 1
         /\ r.st = "done" => r.hdr.contentLength = Some(Len(r.body))

\* ----------------------------------------------------------- record ids --
\* C25: no two live media records of one kind share an id, under either
\* backend: the ids of MemStorage are the keys of its map, all below the
\* next id of the sequence, and the ids MongoStorage shows for two documents
\* of one kind differ.
C25_UniqueIds ==
  /\ \A id \in DOMAIN mediaFilesMap :
       mediaFilesMap[id].id = id /\ id < currentMediaFileId
  /\ \A i, j \in DOMAIN mediaFileDocs :
       (i # j /\ mediaFileDocs[i].fileType = mediaFileDocs[j].fileType) =>
         mediaFileOfDoc(mediaFileDocs[i]).id # mediaFileOfDoc(mediaFileDocs[j]).id

\* ------------------------------------------------------ kinds of media --
\* The endpoints that take the id of a record, by the kind they serve.
KindIdOps == [video |-> {"getVideoById", "streamVideo", "deleteVideo"},
              pdf |-> {"getPdfById", "viewPdf", "downloadPdf", "downloadPdfPage", "deletePdf"}]
KindListOps == [video |-> "getAllVideos", pdf |-> "getAllPdfs"]

\* C26: an endpoint of one kind called with the id of a record of the other
\* kind answers 404 and leaves every record and blob as it was; and the list
\* of a kind holds the records of that kind and no other.
C26_KindsIsolated ==
  [][\A c \in Conns, kind \in DOMAIN KindIdOps :
       /\ (/\ Handled(c)
           /\ conn'[c].req.op \in KindIdOps[kind]
           /\ IsNum(parseInt(conn'[c].req.id))
           /\ Val(parseInt(conn'[c].req.id)) \in DOMAIN mediaFilesMap
           /\ mediaFilesMap[Val(parseInt(conn'[c].req.id))].fileType # kind) =>
            /\ conn'[c].status = 404
            /\ mediaFilesMap' = mediaFilesMap
            /\ disk' = disk
       /\ (Handled(c) /\ conn'[c].req.op = KindListOps[kind]) =>
            /\ conn'[c].status = 200
            /\ {conn'[c].json[2][i] : i \in DOMAIN conn'[c].json[2]} =
                 {mediaFilesMap[id] : id \in {i \in DOMAIN mediaFilesMap :
                                               mediaFilesMap[i].fileType = kind}}]_vars

\* A video delete called with the id of a pdf record: 404, the pdf stays.
C26_Witness ==
  \E c \in Conns :
    /\ conn[c].req.op = "deleteVideo"
    /\ conn[c].status = 404
    /\ IsNum(parseInt(conn[c].req.id))
    /\ Val(parseInt(conn[c].req.id)) \in DOMAIN mediaFilesMap
    /\ mediaFilesMap[Val(parseInt(conn[c].req.id))].fileType = "pdf"
    /\ \E id \in DOMAIN mediaFilesMap : mediaFilesMap[id].fileType = "video"

\* ================================================== useAudioRecorder ==
\* client/src/hooks/useAudioRecorder.ts.  A stream and an interval are named
\* by a positive number; a ref holds one of them or 0 for null.
MaxStarts == 2

\* The name of a new object: the least one no live object and no ref holds.
Fresh(used) == CHOOSE n \in 1..(Cardinality(used) + 1) : n \notin used

\* stopMediaTracks(): stops the stream streamRef holds, and only that one.
stopMediaTracks(rec) ==
  IF rec.streamRef # 0
    THEN [rec EXCEPT !.streams = @ \ {rec.streamRef}, !.streamRef = 0]
    ELSE rec

\* clearInterval(timerRef.current), guarded by `if (timerRef.current)`.
clearTimer(rec) ==
  IF rec.timerRef # 0 THEN [rec EXCEPT !.timers = @ \ {rec.timerRef}] ELSE rec

\* timerRef.current = setInterval(...): the interval the ref held keeps running.
setTimer(rec) ==
  LET t == Fresh(rec.timers \cup {rec.timerRef})
  IN  [rec EXCEPT !.timers = @ \cup {t}, !.timerRef = t]

\* startRecording up to its await: getUserMedia is asked for, nothing else.
StartRecording ==
  /\ recorder.mounted
  /\ recorder.starts < MaxStarts
  /\ recorder' = [recorder EXCEPT !.pending = @ + 1, !.starts = @ + 1,
                                  !.last = "startRecording"]
  /\ UNCHANGED <<serverVars, review, viewer>>

\* startRecording after its await: the stream and the recorder overwrite the
\* refs, the recorder starts, the interval overwrites timerRef.  It runs
\* whether or not the component is still mounted; the state setters act only
\* on a mounted component.
MicAcquired ==
  /\ recorder.pending > 0
  /\ LET s == Fresh(recorder.streams \cup {recorder.streamRef, recorder.mediaRecorderRef})
         r1 == [recorder EXCEPT !.pending = @ - 1, !.streams = @ \cup {s},
                                !.streamRef = s, !.mediaRecorderRef = s,
                                !.isRecording = IF recorder.mounted THEN TRUE ELSE @,
                                !.isPaused = IF recorder.mounted THEN FALSE ELSE @,
                                !.last = "acquired"]
     IN  recorder' = setTimer(r1)
  /\ UNCHANGED <<serverVars, review, viewer>>

\* getUserMedia rejects: the catch block logs and the call ends.
MicDenied ==
  /\ recorder.pending > 0
  /\ recorder' = [recorder EXCEPT !.pending = @ - 1, !.last = "denied"]
  /\ UNCHANGED <<serverVars, review, viewer>>

PauseRecording ==
  /\ recorder.mounted
  /\ recorder.mediaRecorderRef # 0 /\ recorder.isRecording /\ ~recorder.isPaused
  /\ recorder' = [clearTimer(recorder) EXCEPT !.isPaused = TRUE, !.timerRef = 0,
                                              !.last = "pauseRecording"]
  /\ UNCHANGED <<serverVars, review, viewer>>

ResumeRecording ==
  /\ recorder.mounted
  /\ recorder.mediaRecorderRef # 0 /\ recorder.isRecording /\ recorder.isPaused
  /\ recorder' = setTimer([recorder EXCEPT !.isPaused = FALSE, !.last = "resumeRecording"])
  /\ UNCHANGED <<serverVars, review, viewer>>

\* stopRecording: stop() on the recorder the ref holds (its stop event comes
\* later), the timer the ref holds is cleared; when not recording it only
\* resolves with an empty blob.
StopRecording ==
  /\ recorder.mounted
  /\ recorder' =
       IF recorder.mediaRecorderRef # 0 /\ recorder.isRecording
         THEN [clearTimer(recorder) EXCEPT !.stopping = @ + 1, !.isRecording = FALSE,
                                          !.isPaused = FALSE, !.timerRef = 0,
                                          !.last = "stopRecording"]
         ELSE [recorder EXCEPT !.last = "stopRecording"]
  /\ UNCHANGED <<serverVars, review, viewer>>

\* mediaRecorder.onstop: the blob is kept and stopMediaTracks() runs on
\* whatever stream the ref holds by then.
OnStop ==
  /\ recorder.stopping > 0
  /\ recorder' = [stopMediaTracks(recorder) EXCEPT !.stopping = @ - 1, !.last = "onstop"]
  /\ UNCHANGED <<serverVars, review, viewer>>

\* The cleanup of the mount effect.
Unmount ==
  /\ recorder.mounted
  /\ recorder' = [clearTimer(stopMediaTracks(recorder)) EXCEPT !.mounted = FALSE,
                                                               !.last = "unmount"]
  /\ UNCHANGED <<serverVars, review, viewer>>

NextRecorder ==
  \/ StartRecording
  \/ MicAcquired
  \/ MicDenied
  \/ PauseRecording
  \/ ResumeRecording
  \/ StopRecording
  \/ OnStop
  \/ Unmount

SpecRecorder == Init /\ [][NextRecorder]_vars

\* C27: the hook holds at most one live session: never more than one active
\* interval, never more than one un-stopped stream, and right after
\* stopRecording or unmount no interval is active.
C27_OneSession ==
  /\ Cardinality(recorder.timers) <= 1
  /\ Cardinality(recorder.streams) <= 1
  /\ recorder.last \in {"stopRecording", "unmount"} => recorder.timers = {}

\* ======================================================== AudioReview ==
\* client/src/pages/AudioReview.tsx.  A recording is named by its id; null is 0.
\* Its name and its age in days come from a fixed catalogue.
MaxRecordings == 6
MaxDeletes == 2
itemsPerPage == 5

RecordingName(r) == IF r % 2 = 1 THEN <<"a">> ELSE <<"a", "b">>
RecordingAge(r) == IF r % 3 = 0 THEN 45 ELSE IF r % 3 = 1 THEN 3 ELSE 20

SearchQueries == {<<>>, <<"a">>, <<"B">>, <<"z">>}
TimeFilters == {"all", "week", "month", "last-month"}

\* String.prototype.toLowerCase and String.prototype.includes on these letters.
LowerCase(str) == [i \in 1..Len(str) |-> IF str[i] = "B" THEN "b" ELSE str[i]]
Includes(str, sub) ==
  \E i \in 0..(Len(str) - Len(sub)) : SubSeq(str, i + 1, i + Len(sub)) = sub

\* The predicate of recordings.filter: the name holds the query, and the date
\* is within the window of the time filter (a month taken as 30 days).
matchesFilter(r, searchQuery, timeFilter) ==
  /\ Includes(LowerCase(RecordingName(r)), LowerCase(searchQuery))
  /\ CASE timeFilter = "week" -> RecordingAge(r) <= 7
       [] timeFilter = "month" -> RecordingAge(r) <= 30
       [] timeFilter = "last-month" -> RecordingAge(r) <= 60 /\ RecordingAge(r) >= 30
       [] OTHER -> TRUE

filteredRecordings(rv) ==
  SelectSeq(rv.recordings, LAMBDA r : matchesFilter(r, rv.searchQuery, rv.timeFilter))

\* Math.ceil(length / itemsPerPage)
totalPages(rv) == (Len(filteredRecordings(rv)) + itemsPerPage - 1) \div itemsPerPage

\* filteredRecordings.slice((currentPage - 1) * itemsPerPage, currentPage * itemsPerPage)
paginatedRecordings(rv) ==
  LET f == filteredRecordings(rv)
  IN  SubSeq(f, (rv.currentPage - 1) * itemsPerPage + 1,
             Min(rv.currentPage * itemsPerPage, Len(f)))

\* The recordings a row is rendered for: only these have buttons.
Rows(rv) == {paginatedRecordings(rv)[i] : i \in 1..Len(paginatedRecordings(rv))}

\* Both dialogs are modal: the page behind an open one takes no clicks.
PageUsable == ~review.renameDialogOpen /\ ~review.deleteDialogOpen

\* The page numbers the pagination renders a link for.
PageLinks(rv) ==
  LET t == totalPages(rv)
      num(i) == IF t > 3 /\ rv.currentPage > 2
                  THEN IF rv.currentPage - 1 + i > t THEN t - 2 + i
                       ELSE rv.currentPage - 1 + i
                  ELSE i + 1
  IN  {n \in {num(i) : i \in 0..(Min(t, 3) - 1)} : n <= t}

\* The query resolves: the list of the server arrives.
RecordingsLoaded ==
  /\ review.recordings = <<>> /\ review.deleted = {}
  /\ \E n \in 1..MaxRecordings :
       review' = [review EXCEPT !.recordings = [i \in 1..n |-> i]]
  /\ UNCHANGED <<serverVars, recorder, viewer>>

SetSearchQuery ==
  /\ PageUsable
  /\ \E q \in SearchQueries \ {review.searchQuery} :
       review' = [review EXCEPT !.searchQuery = q]
  /\ UNCHANGED <<serverVars, recorder, viewer>>

SetTimeFilter ==
  /\ PageUsable
  /\ \E f \in TimeFilters \ {review.timeFilter} :
       review' = [review EXCEPT !.timeFilter = f]
  /\ UNCHANGED <<serverVars, recorder, viewer>>

\* Previous, Next and the numbered links; rendered when totalPages > 1.
PreviousPage ==
  /\ PageUsable /\ totalPages(review) > 1
  /\ review' = [review EXCEPT !.currentPage = Max(@ - 1, 1)]
  /\ UNCHANGED <<serverVars, recorder, viewer>>

NextPage ==
  /\ PageUsable /\ totalPages(review) > 1
  /\ review' = [review EXCEPT !.currentPage = Min(@ + 1, totalPages(review))]
  /\ UNCHANGED <<serverVars, recorder, viewer>>

PageLink ==
  /\ PageUsable /\ totalPages(review) > 1
  /\ \E pageNum \in PageLinks(review) :
       review' = [review EXCEPT !.currentPage = pageNum]
  /\ UNCHANGED <<serverVars, recorder, viewer>>

openRenameDialog ==
  /\ PageUsable
  /\ \E r \in Rows(review) :
       review' = [review EXCEPT !.selectedRecording = r, !.renameDialogOpen = TRUE]
  /\ UNCHANGED <<serverVars, recorder, viewer>>

openDeleteDialog ==
  /\ PageUsable
  /\ \E r \in Rows(review) :
       review' = [review EXCEPT !.selectedRecording = r, !.deleteDialogOpen = TRUE]
  /\ UNCHANGED <<serverVars, recorder, viewer>>

\* Cancel, Escape: onOpenChange(false) of the open dialog.
CloseDialog ==
  /\ ~PageUsable
  /\ review' = [review EXCEPT !.renameDialogOpen = FALSE, !.deleteDialogOpen = FALSE]
  /\ UNCHANGED <<serverVars, recorder, viewer>>

handlePlay ==
  /\ PageUsable
  /\ \E r \in Rows(review) : review' = [review EXCEPT !.playingRecording = r]
  /\ UNCHANGED <<serverVars, recorder, viewer>>

\* The Delete button of the confirmation: deleteMutation.mutate(selectedRecording.id);
\* the button closes the dialog, the request is in flight.
handleDelete ==
  /\ review.deleteDialogOpen
  /\ review.selectedRecording # 0
  /\ Cardinality(review.deleting \cup review.deleted \cup {review.selectedRecording})
       <= MaxDeletes
  /\ review' = [review EXCEPT !.deleting = @ \cup {review.selectedRecording},
                              !.deleteDialogOpen = FALSE]
  /\ UNCHANGED <<serverVars, recorder, viewer>>

\* WithoutRecording: the list the invalidated query fetches after the delete.
WithoutRecording(recordings, id) == SelectSeq(recordings, LAMBDA r : r # id)

\* deleteMutation.onSuccess, run with the state of the latest render.
deleteOnSuccess(rv, id) ==
  [rv EXCEPT !.recordings = WithoutRecording(@, id),
             !.deleting = @ \ {id},
             !.deleted = @ \cup {id},
             !.deleteDialogOpen = FALSE,
             !.playingRecording = IF rv.playingRecording = rv.selectedRecording
                                    THEN 0 ELSE @]

DeleteSucceeds ==
  /\ \E id \in review.deleting : review' = deleteOnSuccess(review, id)
  /\ UNCHANGED <<serverVars, recorder, viewer>>

\* deleteMutation.onError: a toast.
DeleteFails ==
  /\ \E id \in review.deleting : review' = [review EXCEPT !.deleting = @ \ {id}]
  /\ UNCHANGED <<serverVars, recorder, viewer>>

NextReview ==
  \/ RecordingsLoaded
  \/ SetSearchQuery
  \/ SetTimeFilter
  \/ PreviousPage
  \/ NextPage
  \/ PageLink
  \/ openRenameDialog
  \/ openDeleteDialog
  \/ CloseDialog
  \/ handlePlay
  \/ handleDelete
  \/ DeleteSucceeds
  \/ DeleteFails

SpecReview == Init /\ [][NextReview]_vars

\* C28: the current page always addresses an existing page of the filtered
\* list: 1 <= currentPage <= max(1, totalPages).
C28_PageInRange ==
  /\ 1 <= review.currentPage
  /\ review.currentPage <= Max(1, totalPages(review))

\* C29: a recording whose delete has succeeded is not the one the player plays.
C29_DeletedNotPlaying == review.playingRecording \notin review.deleted

\* ========================================================== PdfViewer ==
\* The PdfViewer page with its PDFControls and PDFThumbnails.  A PDF is named
\* by its id; null and undefined are 0.  Zoom is held in hundredths.
MaxPdfs == 3

\* pageCount of the PDF the server returns for an id: at least 1 (uploadPdf).
PdfPageCount(id) == id

\* const totalPages = selectedPdf?.pageCount || 0
viewerTotalPages(v) == IF v.selectedPdf = 0 THEN 0 ELSE PdfPageCount(v.selectedPdf)

resetOnSelectKeepsPage(v) == v

\* The effect on [selectedPdfId]: setCurrentPage(1); setZoom(1).
resetOnSelect(v) == [v EXCEPT !.currentPage = 1, !.zoom = 100]

\* setSelectedPdfId(id) and the render after it: the query of the new key has
\* the cached data or none, and the effect runs when the id changed.
setSelectedPdfId(v, id) ==
  IF id = v.selectedPdfId THEN v
  ELSE resetOnSelect([v EXCEPT !.selectedPdfId = id,
                               !.selectedPdf = IF id \in v.cached THEN id ELSE 0])

handleNextPage(v) ==
  IF v.currentPage < viewerTotalPages(v) THEN [v EXCEPT !.currentPage = @ + 1] ELSE v

handlePrevPage(v) ==
  IF v.currentPage > 1 THEN [v EXCEPT !.currentPage = @ - 1] ELSE v

handlePageSelect(v, page) ==
  IF page >= 1 /\ page <= viewerTotalPages(v) THEN [v EXCEPT !.currentPage = page] ELSE v

handleZoomIn(v) == [v EXCEPT !.zoom = Min(@ + 25, 300)]

handleZoomOut(v) == [v EXCEPT !.zoom = Max(@ - 25, 50)]

\* The list query resolves; the effect selects the first PDF when none is.
PdfFilesLoaded ==
  /\ viewer.pdfFiles = <<>>
  /\ \E n \in 1..MaxPdfs :
       LET v == [viewer EXCEPT !.pdfFiles = [i \in 1..n |-> i]]
       IN  viewer' = IF v.selectedPdfId = 0 THEN setSelectedPdfId(v, v.pdfFiles[1]) ELSE v
  /\ UNCHANGED <<serverVars, recorder, review>>

\* The query of the selected PDF resolves.
SelectedPdfLoaded ==
  /\ viewer.selectedPdfId # 0 /\ viewer.selectedPdf = 0
  /\ viewer' = [viewer EXCEPT !.selectedPdf = viewer.selectedPdfId,
                              !.cached = @ \cup {viewer.selectedPdfId}]
  /\ UNCHANGED <<serverVars, recorder, review>>

\* uploadMutation.onSuccess: the list is fetched again, the new PDF selected.
PdfUploaded ==
  /\ Len(viewer.pdfFiles) < MaxPdfs
  /\ LET id == Len(viewer.pdfFiles) + 1
     IN  viewer' = setSelectedPdfId([viewer EXCEPT !.pdfFiles = Append(@, id)], id)
  /\ UNCHANGED <<serverVars, recorder, review>>

\* The Select of PDFControls.
PdfSelect ==
  /\ \E i \in 1..Len(viewer.pdfFiles) :
       viewer' = setSelectedPdfId(viewer, viewer.pdfFiles[i])
  /\ UNCHANGED <<serverVars, recorder, review>>

\* The buttons of PDFControls, each disabled as the component disables it.
ClickNextPage ==
  /\ viewer.selectedPdfId # 0 /\ viewer.currentPage < viewerTotalPages(viewer)
  /\ viewer' = handleNextPage(viewer)
  /\ UNCHANGED <<serverVars, recorder, review>>

ClickPrevPage ==
  /\ viewer.selectedPdfId # 0 /\ viewer.currentPage > 1
  /\ viewer' = handlePrevPage(viewer)
  /\ UNCHANGED <<serverVars, recorder, review>>

ClickZoomIn ==
  /\ viewer.selectedPdfId # 0
  /\ viewer' = handleZoomIn(viewer)
  /\ UNCHANGED <<serverVars, recorder, review>>

ClickZoomOut ==
  /\ viewer.selectedPdfId # 0
  /\ viewer' = handleZoomOut(viewer)
  /\ UNCHANGED <<serverVars, recorder, review>>

\* A thumbnail of PDFThumbnails: one per page of selectedPdf.pageCount || 1.
ClickThumbnail ==
  /\ viewer.selectedPdf # 0
  /\ \E page \in 1..Max(PdfPageCount(viewer.selectedPdf), 1) :
       viewer' = handlePageSelect(viewer, page)
  /\ UNCHANGED <<serverVars, recorder, review>>

NextViewer ==
  \/ PdfFilesLoaded
  \/ SelectedPdfLoaded
  \/ PdfUploaded
  \/ PdfSelect
  \/ ClickNextPage
  \/ ClickPrevPage
  \/ ClickZoomIn
  \/ ClickZoomOut
  \/ ClickThumbnail

SpecViewer == Init /\ [][NextViewer]_vars

\* C30: after every action of the viewer zoom is within [0.5, 3] and a
\* multiple of 0.25, currentPage is at least 1 and at most the pageCount of
\* the selected PDF once that is known, and a step that selects a different
\* PDF leaves currentPage 1 and zoom 1.
C30_PageAndZoom ==
  [][/\ viewer'.zoom >= 50 /\ viewer'.zoom <= 300 /\ viewer'.zoom % 25 = 0
     /\ viewer'.currentPage >= 1
     /\ viewer'.selectedPdf # 0 => viewer'.currentPage <= PdfPageCount(viewer'.selectedPdf)
     /\ viewer'.selectedPdfId # viewer.selectedPdfId =>
          viewer'.currentPage = 1 /\ viewer'.zoom = 100]_vars

\* Both ends are reached after a PDF was changed: the last page at full zoom
\* and the first page at least zoom, with two PDFs already seen.
C30_Witness ==
  /\ Cardinality(viewer.cached) >= 2
  /\ viewer.selectedPdf # 0
  /\ viewerTotalPages(viewer) >= 2
  /\ viewer.currentPage = viewerTotalPages(viewer)
  /\ viewer.zoom = 300

====
